---- MODULE Spec2Model ----
(***************************************************************************)
(* A model of ts-cli-template-maker: the Localization Table (Messages),    *)
(* the input validators, the prompt sequence of promptUser and the         *)
(* materialization pipeline of createProject.                              *)
(*                                                                         *)
(* Two revisions of the script are modelled, selected by variant:          *)
(*   "orphan"   src/src/index.ts lines 1-310 (git switch --orphan, commit) *)
(*   "checkout" src/unnamed/part_000 lines 264-624 (git checkout)          *)
(*                                                                         *)
(* Strings are TLA+ strings handled character by character (Len, SubSeq,   *)
(* \o).  Pictographs of the message table are written as ASCII names in    *)
(* colons, accented letters without their accent.                          *)
(***************************************************************************)
EXTENDS Integers, Sequences, FiniteSets, TLC

(***************************************************************************)
(* JavaScript string primitives used by the script                         *)
(***************************************************************************)
Char(s, i) == SubSeq(s, i, i)

LowerAlpha == "abcdefghijklmnopqrstuvwxyz"
UpperAlpha == "ABCDEFGHIJKLMNOPQRSTUVWXYZ"
DigitChars == "0123456789"

CharsOf(s) == {Char(s, i) : i \in 1..Len(s)}

IsAlpha(c) == c \in CharsOf(LowerAlpha) \cup CharsOf(UpperAlpha)
IsDigit(c) == c \in CharsOf(DigitChars)

\* the regular-expression class \w
IsWordChar(c) == IsAlpha(c) \/ IsDigit(c) \/ c = "_"

LowerOfChar(c) ==
    IF \E i \in 1..26 : Char(UpperAlpha, i) = c
    THEN Char(LowerAlpha, CHOOSE i \in 1..26 : Char(UpperAlpha, i) = c)
    ELSE c

RECURSIVE toLowerCase(_)
toLowerCase(s) ==
    IF Len(s) = 0 THEN ""
    ELSE LowerOfChar(Char(s, 1)) \o toLowerCase(SubSeq(s, 2, Len(s)))

\* String.prototype.startsWith / endsWith
StartsWith(s, p) == Len(p) <= Len(s) /\ SubSeq(s, 1, Len(p)) = p
EndsWith(s, p) == Len(p) <= Len(s) /\ SubSeq(s, Len(s) - Len(p) + 1, Len(s)) = p

\* String.prototype.indexOf, 1-based; 0 when pat does not occur
IndexOf(s, pat) ==
    LET hits == {i \in 1..(Len(s) - Len(pat) + 1) : SubSeq(s, i, i + Len(pat) - 1) = pat}
    IN IF hits = {} THEN 0 ELSE CHOOSE i \in hits : \A j \in hits : i <= j

\* String.prototype.lastIndexOf, 1-based; 0 when pat does not occur
LastIndexOf(s, pat) ==
    LET hits == {i \in 1..(Len(s) - Len(pat) + 1) : SubSeq(s, i, i + Len(pat) - 1) = pat}
    IN IF hits = {} THEN 0 ELSE CHOOSE i \in hits : \A j \in hits : i >= j

\* String.prototype.replace with a string pattern: the FIRST occurrence only
ReplaceFirst(s, pat, by) ==
    LET i == IndexOf(s, pat)
    IN IF i = 0 THEN s
       ELSE SubSeq(s, 1, i - 1) \o by \o SubSeq(s, i + Len(pat), Len(s))

\* String.prototype.trim (the inputs hold no white space other than blanks)
RECURSIVE trim(_)
trim(s) ==
    IF Len(s) = 0 THEN ""
    ELSE IF Char(s, 1) = " " THEN trim(SubSeq(s, 2, Len(s)))
    ELSE IF Char(s, Len(s)) = " " THEN trim(SubSeq(s, 1, Len(s) - 1))
    ELSE s

\* String.prototype.split with a one-character separator
RECURSIVE split(_, _)
split(s, sep) ==
    LET i == IndexOf(s, sep)
    IN IF i = 0 THEN <<s>>
       ELSE <<SubSeq(s, 1, i - 1)>> \o split(SubSeq(s, i + 1, Len(s)), sep)

\* decimal digits to a number, and back
RECURSIVE StrToNat(_)
StrToNat(s) ==
    IF Len(s) = 0 THEN 0
    ELSE StrToNat(SubSeq(s, 1, Len(s) - 1)) * 10
         + (CHOOSE d \in 0..9 : Char(DigitChars, d + 1) = Char(s, Len(s)))

RECURSIVE NatToStr(_)
NatToStr(n) ==
    IF n < 10 THEN Char(DigitChars, n + 1)
    ELSE NatToStr(n \div 10) \o Char(DigitChars, (n % 10) + 1)

(***************************************************************************)
(* new URL(input).origin  (the WHATWG URL parser, as far as the origin      *)
(* needs it: ASCII input without percent escapes, IPv6 or IPv4 literals)    *)
(***************************************************************************)
SpecialSchemes == {"http", "https", "ftp", "ws", "wss", "file"}

DefaultPort(scheme) ==
    CASE scheme = "http" -> 80
      [] scheme = "https" -> 443
      [] scheme = "ftp" -> 21
      [] scheme = "ws" -> 80
      [] scheme = "wss" -> 443
      [] OTHER -> -1

\* code points a host may not hold
ForbiddenHostChars == {" ", "#", "/", ":", "<", ">", "?", "@", "[", "\\", "]", "^", "|", "%"}

IsSchemeChar(c) == IsAlpha(c) \/ IsDigit(c) \/ c \in {"+", "-", "."}

\* the scheme of an input: its text before the first ":" when that text is a
\* letter followed by scheme characters, lower-cased; "" when there is none
SchemeOf(s) ==
    LET colon == IndexOf(s, ":")
    IN IF colon <= 1 THEN ""
       ELSE IF /\ IsAlpha(Char(s, 1))
               /\ \A i \in 1..(colon - 1) : IsSchemeChar(Char(s, i))
            THEN toLowerCase(SubSeq(s, 1, colon - 1))
            ELSE ""

RECURSIVE SkipSlashes(_)
SkipSlashes(s) ==
    IF Len(s) > 0 /\ Char(s, 1) \in {"/", "\\"} THEN SkipSlashes(SubSeq(s, 2, Len(s))) ELSE s

\* the authority of a special URL: up to the first "/", "\", "?" or "#"
AuthorityOf(s) ==
    LET ends == {i \in 1..Len(s) : Char(s, i) \in {"/", "\\", "?", "#"}}
        stop == IF ends = {} THEN Len(s) + 1 ELSE CHOOSE i \in ends : \A j \in ends : i <= j
    IN SubSeq(s, 1, stop - 1)

URLFailure == [ok |-> FALSE, origin |-> ""]

\* the origin of a special, non-file URL whose text after "scheme:" is rest
SpecialOrigin(scheme, rest) ==
    LET auth == AuthorityOf(SkipSlashes(rest))
        at == LastIndexOf(auth, "@")
        hostport == SubSeq(auth, at + 1, Len(auth))
        pc == IndexOf(hostport, ":")
        rawhost == IF pc = 0 THEN hostport ELSE SubSeq(hostport, 1, pc - 1)
        port == IF pc = 0 THEN "" ELSE SubSeq(hostport, pc + 1, Len(hostport))
        host == toLowerCase(rawhost)
    IN IF host = "" THEN URLFailure
       ELSE IF \E i \in 1..Len(host) : Char(host, i) \in ForbiddenHostChars THEN URLFailure
       ELSE IF \E i \in 1..Len(port) : ~IsDigit(Char(port, i)) THEN URLFailure
       ELSE IF Len(port) > 5 \/ StrToNat(port) > 65535 THEN URLFailure
       ELSE [ok |-> TRUE,
             origin |-> scheme \o "://" \o host \o
                        (IF port = "" \/ StrToNat(port) = DefaultPort(scheme)
                         THEN "" ELSE ":" \o NatToStr(StrToNat(port)))]

\* leading and trailing blanks are stripped before parsing
ParseURL(input) ==
    LET s == trim(input)
        scheme == SchemeOf(s)
        rest == SubSeq(s, Len(scheme) + 2, Len(s))
    IN IF scheme = "" THEN URLFailure          \* no base URL: TypeError
       ELSE IF scheme = "file" THEN [ok |-> TRUE, origin |-> "null"]
       ELSE IF scheme \in SpecialSchemes THEN SpecialOrigin(scheme, rest)
       ELSE IF scheme = "blob"
            THEN \* a blob URL has the origin of the http(s) URL in its path
                 LET inner == SchemeOf(rest)
                     o == SpecialOrigin(inner, SubSeq(rest, Len(inner) + 2, Len(rest)))
                 IN IF inner \in {"http", "https"} /\ o.ok THEN o
                    ELSE [ok |-> TRUE, origin |-> "null"]
       ELSE [ok |-> TRUE, origin |-> "null"]    \* opaque origin

(***************************************************************************)
(* State                                                                   *)
(***************************************************************************)
VARIABLES
    variant,          \* which revision of the script runs
    pc,               \* the prompt being asked or the pipeline step about to run
    outcome,          \* "Running" or how the run ended
    exitCode,         \* -1 while the process runs, then its exit status
    currentLanguage,  \* Messages.currentLanguage
    repoURLType,      \* the answer of the repository-URL-kind prompt
    answers,          \* the answers object of the second inquirer.prompt call
    asked,            \* the prompts resolved so far, in order
    lastSubmit,       \* the last line submitted to a prompt and what validate returned
    out,              \* the lines printed with console.log / console.error
    cmds,             \* the commands run with execSync, in order, each with whether it exited 0
    steps,            \* the pipeline steps started, in order
    disk,             \* the project directory: whether it exists, its package.json
    branches,         \* the merged branches still to delete (the for loop)
    listing,          \* what git branch --merged printed ("" before the listing)
    thrown            \* the values a catch received, in order (empty while none was thrown)

vars == <<variant, pc, outcome, exitCode, currentLanguage, repoURLType, answers,
          asked, lastSubmit, out, cmds, steps, disk, branches, listing, thrown>>

(***************************************************************************)
(* Localization Table                                                      *)
(***************************************************************************)
messages ==
    [en |-> [
        selectLanguage |-> "Select your language",
        projectName |-> "What is your project name? (c: to cancel)",
        repoURLType |-> "Which type of URL do you want to use for the repository? (c: to cancel)",
        repoURL |-> "Which TypeScript template repository you want to use (Repo URL)? (c: to cancel)",
        branchName |-> "Which branch do you want to clone? (leave blank for default branch)",
        newRepoURL |-> "Enter the new GitHub repository URL for your project (leave blank to skip, c: to cancel):",
        mainBranchName |-> "Choose the main branch name (master or main):",
        operationCanceled |-> "Operation canceled by the user.",
        creatingProject |-> "Creating a new project in .",
        installingDependencies |-> "Installing dependencies :briefcase:...",
        settingRemote |-> "Setting new remote origin to ",
        cleaningUpBranches |-> "Cleaning up branches...",
        projectReady |-> "Project is ready to go! :rocket::rocket::rocket:",
        errorPackageJson |-> "Error: package.json not found in the template. Please check the template structure.",
        errorOccurred |-> "Failed to create project due to an error: ",
        unknownErrorOccurred |-> "An unknown error occurred: ",
        invalidGitRepoURL |-> "Please enter a valid GitHub repository URL.",
        packageName |-> "Enter the package name (leave blank for default):",
        description |-> "Enter the project description (leave blank for none):",
        author |-> "Enter the author name (leave blank for none):",
        license |-> "Enter the project license (default: ISC):",
        keywords |-> "Enter keywords separated by commas (leave blank for none):"],
     pt |-> [
        selectLanguage |-> "Selecione seu idioma",
        projectName |-> "Qual e o nome do seu projeto? (c: para cancelar)",
        repoURLType |-> "Qual tipo de URL voce deseja usar para o repositorio? (c: para cancelar)",
        repoURL |-> "Qual repositorio de template TypeScript voce deseja usar (URL do repositorio)? (c: para cancelar)",
        branchName |-> "Qual branch voce deseja clonar? (deixe em branco para a branch padrao)",
        newRepoURL |-> "Insira a nova URL do repositorio GitHub para o seu projeto (deixe em branco para pular, c: para cancelar):",
        mainBranchName |-> "Escolha o nome da branch principal (master ou main):",
        operationCanceled |-> "Operacao cancelada pelo usuario.",
        creatingProject |-> "Criando um novo projeto em .",
        installingDependencies |-> "Instalando dependencias :briefcase:...",
        settingRemote |-> "Configurando novo remote origin para ",
        cleaningUpBranches |-> "Limpando branches...",
        projectReady |-> "Projeto esta pronto para comecar! :rocket::rocket::rocket:",
        errorPackageJson |-> "Erro: package.json nao encontrado no template. Verifique a estrutura do template.",
        errorOccurred |-> "Falha ao criar o projeto devido a um erro: ",
        unknownErrorOccurred |-> "Ocorreu um erro desconhecido: ",
        invalidGitRepoURL |-> "Por favor, insira uma URL valida do repositorio GitHub.",
        packageName |-> "Digite o nome do pacote (deixe em branco para o padrao):",
        description |-> "Digite a descricao do projeto (deixe em branco para nenhum):",
        author |-> "Digite o nome do autor (deixe em branco para nenhum):",
        license |-> "Digite a licenca do projeto (padrao: ISC):",
        keywords |-> "Digite palavras-chave separadas por virgulas (deixe em branco para nenhuma):"]]

\* type MessageKey
MessageKey ==
    {"selectLanguage", "projectName", "repoURLType", "repoURL", "branchName", "newRepoURL",
     "mainBranchName", "operationCanceled", "creatingProject", "installingDependencies",
     "settingRemote", "cleaningUpBranches", "projectReady", "errorPackageJson",
     "errorOccurred", "unknownErrorOccurred", "invalidGitRepoURL", "packageName",
     "description", "author", "license", "keywords"}

\* faulty variant: a third language is offered that the table does not hold
LanguageCodes_Third == {"en", "pt", "es"}

LanguageCodes == {"en", "pt"}

\* Messages.get(key): the message of the active language
get(key) == messages[currentLanguage][key]

(***************************************************************************)
(* Validators.  A validator returns true or an error string; the model     *)
(* writes that as [valid |-> TRUE, message |-> ""] or [valid |-> FALSE,    *)
(* message |-> <the string>].                                              *)
(***************************************************************************)
Accepted == [valid |-> TRUE, message |-> ""]
Rejected(msg) == [valid |-> FALSE, message |-> msg]

\* faulty variant: the pattern with * in place of +
MatchesProjectName_Star(name) ==
    \A i \in 1..Len(name) :
       IsAlpha(Char(name, i)) \/ IsDigit(Char(name, i)) \/ Char(name, i) \in {"_", "-"}

\* /^[a-zA-Z0-9_-]+$/.test(name)
MatchesProjectName(name) ==
    /\ Len(name) >= 1
    /\ \A i \in 1..Len(name) :
          IsAlpha(Char(name, i)) \/ IsDigit(Char(name, i)) \/ Char(name, i) \in {"_", "-"}

isValidProjectName(name) ==
    IF MatchesProjectName(name) THEN Accepted ELSE Rejected(get("projectName"))

\* [\w.-]+ from position a to position b of s
IsOwnerOrRepo(s, a, b) ==
    /\ a <= b
    /\ \A i \in a..b : IsWordChar(Char(s, i)) \/ Char(s, i) \in {".", "-"}

\* faulty variant: the .git suffix is optional
MatchesSSH_OptionalSuffix(url) ==
    LET prefix == "git@github.com:"
        n == Len(url)
        last == IF EndsWith(url, ".git") THEN n - 4 ELSE n
    IN /\ StartsWith(url, prefix)
       /\ \E slash \in (Len(prefix) + 1)..n :
             /\ Char(url, slash) = "/"
             /\ IsOwnerOrRepo(url, Len(prefix) + 1, slash - 1)
             /\ IsOwnerOrRepo(url, slash + 1, last)

\* /^git@github\.com:[\w.-]+\/[\w.-]+\.git$/.test(url)
MatchesSSH(url) ==
    LET prefix == "git@github.com:"
        n == Len(url)
    IN /\ StartsWith(url, prefix)
       /\ EndsWith(url, ".git")
       /\ \E slash \in (Len(prefix) + 1)..n :
             /\ Char(url, slash) = "/"
             /\ IsOwnerOrRepo(url, Len(prefix) + 1, slash - 1)
             /\ IsOwnerOrRepo(url, slash + 1, n - 4)

GitHubOrigin == "https://github.com"

\* faulty variant: the host name is compared, not the origin
isValidGitRepoURL_HostOnly(url, type) ==
    IF type = "https"
    THEN LET parsedUrl == ParseURL(url)
         IN IF ~parsedUrl.ok THEN Rejected(get("invalidGitRepoURL"))
            ELSE IF parsedUrl.origin \in {"https://github.com", "http://github.com"}
            THEN Accepted
            ELSE Rejected(get("invalidGitRepoURL"))
    ELSE IF type = "ssh"
    THEN IF MatchesSSH(url) THEN Accepted ELSE Rejected(get("invalidGitRepoURL"))
    ELSE Rejected(get("invalidGitRepoURL"))

\* faulty variant: a kind that is neither https nor ssh lets every line pass
isValidGitRepoURL_DefaultAccepts(url, type) ==
    IF type = "https"
    THEN LET parsedUrl == ParseURL(url)
         IN IF ~parsedUrl.ok THEN Rejected(get("invalidGitRepoURL"))
            ELSE IF parsedUrl.origin = GitHubOrigin THEN Accepted
            ELSE Rejected(get("invalidGitRepoURL"))
    ELSE IF type = "ssh"
    THEN IF MatchesSSH(url) THEN Accepted ELSE Rejected(get("invalidGitRepoURL"))
    ELSE Accepted

isValidGitRepoURL(url, type) ==
    IF type = "https"
    THEN LET parsedUrl == ParseURL(url)
         IN IF ~parsedUrl.ok THEN Rejected(get("invalidGitRepoURL"))     \* catch
            ELSE IF parsedUrl.origin = GitHubOrigin THEN Accepted
            ELSE Rejected(get("invalidGitRepoURL"))
    ELSE IF type = "ssh"
    THEN IF MatchesSSH(url) THEN Accepted ELSE Rejected(get("invalidGitRepoURL"))
    ELSE Rejected(get("invalidGitRepoURL"))

\* faulty variant: the comparison without toLowerCase
IsCancel_CaseSensitive(input) == input = "c"

\* the cancel test of the three validate callbacks
IsCancel(input) == toLowerCase(input) = "c"

(***************************************************************************)
(* What the user may type, and what the template repository may hold       *)
(***************************************************************************)
Variants == {"orphan", "checkout"}
RepoURLTypes == {"https", "ssh"}
MainBranchNames == {"master", "main"}

ProjectNameInputs == {"c", "C", "", "my app", "a.b", "demo/", "demo", "my-app_2"}

RepoURLInputs ==
    {"c", "C", "", "not a url",
     "https://github.com/acme/widget",
     "https://github.com/acme/widget.git",
     "HTTPS://GitHub.com:443/acme/widget",
     "blob:https://github.com/acme/widget",
     "http://github.com/acme/widget",
     "https://gitlab.com/acme/widget",
     "https://github.com.evil.io/acme/widget",
     "https://github.com@evil.io/acme/widget",
     "https://github.com:8443/acme/widget",
     "git@github.com:acme/widget.git",
     "git@github.com:my.github/w-1.git",
     "git@github.com:acme/widget",
     "git@gitlab.com:acme/widget.git",
     "git@github.com:acme/sub/widget.git",
     "git@github.com:/widget.git"}

NewRepoURLInputs ==
    {"c", "C", "",
     "https://github.com/me/app.git",
     "http://github.com/me/app.git",
     "git@github.com:me/app.git",
     "git@github.com:me/app"}

BranchNameInputs == {"", "c", "main"}
PackageNameInputs == {"", "c"}
DescriptionInputs == {"", "c"}
AuthorInputs == {"c"}
LicenseInputs == {"", "c"}
KeywordsInputs == {"", "c", " , ", "a, b ,,c "}

\* the order of the questions (promptLanguage, the kind question, the answers array)
PromptOrder ==
    <<"language", "repoURLType", "projectName", "repoURL", "branchName", "newRepoURL",
      "packageName", "description", "author", "license", "keywords", "mainBranchName">>

ValidatedPrompts == {"projectName", "repoURL", "newRepoURL"}

NoAnswers ==
    [projectName |-> "", repoURL |-> "", branchName |-> "", newRepoURL |-> "",
     packageName |-> "", description |-> "", author |-> "", license |-> "",
     keywords |-> <<>>, mainBranchName |-> ""]

NoSubmit == [prompt |-> "", input |-> "", result |-> Accepted]

\* package.json as the clone delivers it
TemplateDoc ==
    [name |-> "ts-template", version |-> "0.3.1", description |-> "A template",
     author |-> "T. Author", license |-> "MIT", keywords |-> <<"template">>,
     repository |-> [present |-> TRUE, type |-> "git", url |-> "https://github.com/acme/widget.git"],
     bugs |-> [present |-> TRUE, url |-> "https://github.com/acme/widget/issues",
               email |-> "bugs@acme.io"],
     homepage |-> "https://github.com/acme/widget#readme",
     scripts |-> "tsc"]

Absent == [present |-> FALSE]

NoFile == [file |-> "none"]
InvalidFile == [file |-> "invalid"]
JsonFile(doc) == [file |-> "json", doc |-> doc]

Templates ==
    {NoFile, InvalidFile, JsonFile(TemplateDoc),
     JsonFile([TemplateDoc EXCEPT !.repository = Absent]),
     JsonFile([TemplateDoc EXCEPT !.bugs = Absent])}

(***************************************************************************)
(* Init                                                                    *)
(***************************************************************************)
Init ==
    /\ variant \in Variants
    /\ pc = "language"
    /\ outcome = "Running"
    /\ exitCode = -1
    /\ currentLanguage = "en"
    /\ repoURLType = ""
    /\ answers = NoAnswers
    /\ asked = <<>>
    /\ lastSubmit = NoSubmit
    /\ out = <<>>
    /\ cmds = <<>>
    /\ steps = <<>>
    /\ disk = [exists |-> FALSE, manifest |-> NoFile]
    /\ branches = <<>>
    /\ listing = ""
    /\ thrown = <<>>

(***************************************************************************)
(* The prompt phase                                                        *)
(***************************************************************************)
\* faulty variant: the assignment is lost
setLanguage_Lost(language) == currentLanguage' = currentLanguage

\* Messages.setLanguage(language)
setLanguage(language) == currentLanguage' = language

\* faulty variant: the branch question is skipped
NextPrompt_SkipsBranch(p) ==
    LET i == CHOOSE k \in 1..Len(PromptOrder) : PromptOrder[k] = p
    IN IF i = Len(PromptOrder) THEN "clone"
       ELSE IF p = "repoURL" THEN "newRepoURL" ELSE PromptOrder[i + 1]

\* the question after prompt p
NextPrompt(p) ==
    LET i == CHOOSE k \in 1..Len(PromptOrder) : PromptOrder[k] = p
    IN IF i = Len(PromptOrder) THEN "clone" ELSE PromptOrder[i + 1]

\* prompt p resolves: the run moves to the next question
Resolve(p) ==
    /\ asked' = Append(asked, p)
    /\ pc' = NextPrompt(p)

\* faulty variant: canceling removes the project directory with a command
Cancel_Cleanup(input) ==
    /\ out' = out \o <<[stream |-> "log", text |-> ""],
                       [stream |-> "log", text |-> get("operationCanceled")]>>
    /\ cmds' = Append(cmds, [cmd |-> "rm -rf " \o answers.projectName, ok |-> TRUE])
    /\ exitCode' = 0
    /\ outcome' = "Canceled"
    /\ pc' = "done"
    /\ lastSubmit' = [prompt |-> pc, input |-> input, result |-> Accepted]
    /\ UNCHANGED <<variant, currentLanguage, repoURLType, answers, asked, steps,
                   disk, branches, listing, thrown>>

\* console.log(); console.log(Messages.get('operationCanceled')); process.exit(0)
\* (validate never returns: lastSubmit keeps the line typed, with no rejection)
Cancel(input) ==
    /\ out' = out \o <<[stream |-> "log", text |-> ""],
                       [stream |-> "log", text |-> get("operationCanceled")]>>
    /\ exitCode' = 0
    /\ outcome' = "Canceled"
    /\ pc' = "done"
    /\ lastSubmit' = [prompt |-> pc, input |-> input, result |-> Accepted]
    /\ UNCHANGED <<variant, currentLanguage, repoURLType, answers, asked, cmds, steps,
                   disk, branches, listing, thrown>>

\* faulty variant: a rejected line restarts the questions at the project name
Validated_Restarts(field, input, result) ==
    /\ lastSubmit' = [prompt |-> pc, input |-> input, result |-> result]
    /\ IF result.valid
       THEN /\ answers' = [answers EXCEPT ![field] = input]
            /\ Resolve(field)
       ELSE /\ answers' = NoAnswers
            /\ asked' = <<"language", "repoURLType">>
            /\ pc' = "projectName"
    /\ UNCHANGED <<variant, outcome, exitCode, currentLanguage, repoURLType, out, cmds,
                   steps, disk, branches, listing, thrown>>

\* faulty variant: a rejected line ends the run with the validation message
Validated_EndsOnRejection(field, input, result) ==
    /\ lastSubmit' = [prompt |-> pc, input |-> input, result |-> result]
    /\ IF result.valid
       THEN /\ answers' = [answers EXCEPT ![field] = input]
            /\ Resolve(field)
            /\ UNCHANGED <<outcome, exitCode, out>>
       ELSE /\ out' = Append(out, [stream |-> "error", text |-> result.message])
            /\ outcome' = "Failed"
            /\ exitCode' = 0
            /\ pc' = "done"
            /\ UNCHANGED <<answers, asked>>
    /\ UNCHANGED <<variant, currentLanguage, repoURLType, cmds, steps, disk, branches,
                   listing, thrown>>

\* a validate callback returned result for input at a prompt storing into field
Validated(field, input, result) ==
    /\ lastSubmit' = [prompt |-> pc, input |-> input, result |-> result]
    /\ IF result.valid
       THEN /\ answers' = [answers EXCEPT ![field] = input]
            /\ Resolve(field)
       ELSE UNCHANGED <<answers, asked, pc>>       \* the same question is asked again
    /\ UNCHANGED <<variant, outcome, exitCode, currentLanguage, repoURLType, out, cmds,
                   steps, disk, branches, listing, thrown>>

\* faulty variant: every question that takes a line looks for the cancel sentinel
Unvalidated_Cancels(field, input, default) ==
    IF IsCancel(input) THEN Cancel(input)
    ELSE /\ lastSubmit' = [prompt |-> pc, input |-> input, result |-> Accepted]
         /\ answers' = [answers EXCEPT ![field] = IF input = "" THEN default ELSE input]
         /\ Resolve(field)
         /\ UNCHANGED <<variant, outcome, exitCode, currentLanguage, repoURLType, out, cmds,
                        steps, disk, branches, listing, thrown>>

\* a question without validate: an empty line takes the default
Unvalidated(field, input, default) ==
    /\ lastSubmit' = [prompt |-> pc, input |-> input, result |-> Accepted]
    /\ answers' = [answers EXCEPT ![field] = IF input = "" THEN default ELSE input]
    /\ Resolve(field)
    /\ UNCHANGED <<variant, outcome, exitCode, currentLanguage, repoURLType, out, cmds,
                   steps, disk, branches, listing, thrown>>

promptLanguage ==
    /\ pc = "language"
    /\ \E language \in LanguageCodes :
          /\ setLanguage(language)
          /\ lastSubmit' = [prompt |-> pc, input |-> language, result |-> Accepted]
    /\ Resolve("language")
    /\ UNCHANGED <<variant, outcome, exitCode, repoURLType, answers, out, cmds, steps,
                   disk, branches, listing, thrown>>

\* faulty variant: the kind question puts the language back to its default
promptRepoURLType_ResetsLanguage ==
    /\ pc = "repoURLType"
    /\ \E type \in RepoURLTypes :
          /\ repoURLType' = type
          /\ lastSubmit' = [prompt |-> pc, input |-> type, result |-> Accepted]
    /\ currentLanguage' = "en"
    /\ Resolve("repoURLType")
    /\ UNCHANGED <<variant, outcome, exitCode, answers, out, cmds, steps, disk, branches,
                   listing, thrown>>

\* faulty variant: the kind question takes the cancel sentinel
promptRepoURLType_Cancelable ==
    /\ pc = "repoURLType"
    /\ \E type \in RepoURLTypes \cup {"c"} :
          IF IsCancel(type) THEN Cancel(type)
          ELSE /\ repoURLType' = type
               /\ lastSubmit' = [prompt |-> pc, input |-> type, result |-> Accepted]
               /\ Resolve("repoURLType")
               /\ UNCHANGED <<variant, outcome, exitCode, currentLanguage, answers, out,
                              cmds, steps, disk, branches, listing, thrown>>

promptRepoURLType ==
    /\ pc = "repoURLType"
    /\ \E type \in RepoURLTypes :
          /\ repoURLType' = type
          /\ lastSubmit' = [prompt |-> pc, input |-> type, result |-> Accepted]
    /\ Resolve("repoURLType")
    /\ UNCHANGED <<variant, outcome, exitCode, currentLanguage, answers, out, cmds, steps,
                   disk, branches, listing, thrown>>

\* faulty variant: the project-name question does not look for the cancel sentinel
promptProjectName_NoCancel ==
    /\ pc = "projectName"
    /\ \E input \in ProjectNameInputs :
          Validated("projectName", input, isValidProjectName(input))

promptProjectName ==
    /\ pc = "projectName"
    /\ \E input \in ProjectNameInputs :
          IF IsCancel(input) THEN Cancel(input)
          ELSE Validated("projectName", input, isValidProjectName(input))

promptRepoURL ==
    /\ pc = "repoURL"
    /\ \E input \in RepoURLInputs :
          IF IsCancel(input) THEN Cancel(input)
          ELSE Validated("repoURL", input, isValidGitRepoURL(input, repoURLType))

promptBranchName ==
    /\ pc = "branchName"
    /\ \E input \in BranchNameInputs : Unvalidated("branchName", input, "")

\* faulty variant: the new URL is held to the https rule whatever kind was chosen
promptNewRepoURL_HttpsOnly ==
    /\ pc = "newRepoURL"
    /\ \E input \in NewRepoURLInputs :
          IF IsCancel(input) THEN Cancel(input)
          ELSE Validated("newRepoURL", input,
                         IF input = "" THEN Accepted
                         ELSE isValidGitRepoURL(input, "https"))

\* faulty variant: a blank line is held to the URL rule as well
promptNewRepoURL_ValidatesBlank ==
    /\ pc = "newRepoURL"
    /\ \E input \in NewRepoURLInputs :
          IF IsCancel(input) THEN Cancel(input)
          ELSE Validated("newRepoURL", input, isValidGitRepoURL(input, repoURLType))

promptNewRepoURL ==
    /\ pc = "newRepoURL"
    /\ \E input \in NewRepoURLInputs :
          IF IsCancel(input) THEN Cancel(input)
          ELSE Validated("newRepoURL", input,
                         IF input = "" THEN Accepted
                         ELSE isValidGitRepoURL(input, repoURLType))

\* answers.repoURL.split('/').pop()?.replace('.git', '') || 'ts-template-api'
RepoNameDefault(repoURL) ==
    LET parts == split(repoURL, "/")
        repoName == ReplaceFirst(parts[Len(parts)], ".git", "")
    IN IF repoName = "" THEN "ts-template-api" ELSE repoName

\* faulty variant: the default is the fixed fallback name
PackageNameDefault_Fallback == "ts-template-api"

\* the default of the package-name question
PackageNameDefault ==
    IF variant = "orphan" THEN answers.projectName ELSE RepoNameDefault(answers.repoURL)

promptPackageName ==
    /\ pc = "packageName"
    /\ \E input \in PackageNameInputs : Unvalidated("packageName", input, PackageNameDefault)

promptDescription ==
    /\ pc = "description"
    /\ \E input \in DescriptionInputs : Unvalidated("description", input, "")

promptAuthor ==
    /\ pc = "author"
    /\ \E input \in AuthorInputs : Unvalidated("author", input, "")

promptLicense ==
    /\ pc = "license"
    /\ \E input \in LicenseInputs : Unvalidated("license", input, "ISC")

\* keyword => keyword.trim() over the tokens, then keyword.length > 0
RECURSIVE TrimNonEmpty(_)
TrimNonEmpty(tokens) ==
    IF tokens = <<>> THEN <<>>
    ELSE (IF Len(trim(Head(tokens))) > 0 THEN <<trim(Head(tokens))>> ELSE <<>>)
         \o TrimNonEmpty(Tail(tokens))

\* faulty variant: the tokens are filtered without being trimmed
KeywordsFilter_NoTrim(input) == SelectSeq(split(input, ","), LAMBDA t : Len(t) > 0)

\* input.split(',').map(keyword => keyword.trim()).filter(keyword => keyword.length > 0)
KeywordsFilter(input) == TrimNonEmpty(split(input, ","))

promptKeywords ==
    /\ pc = "keywords"
    /\ \E input \in KeywordsInputs :
          /\ lastSubmit' = [prompt |-> pc, input |-> input, result |-> Accepted]
          /\ answers' = [answers EXCEPT !.keywords = KeywordsFilter(input)]
    /\ Resolve("keywords")
    /\ UNCHANGED <<variant, outcome, exitCode, currentLanguage, repoURLType, out, cmds,
                   steps, disk, branches, listing, thrown>>

\* what the user may do at a list question: press Enter at once (written ""), which
\* takes the choice highlighted at the start, the default, or move to another choice
ListInputs(choices, default) == {""} \cup (choices \ {default})

\* faulty variant: the list starts at its first choice, master
promptMainBranchName_FirstChoice ==
    /\ pc = "mainBranchName"
    /\ \E input \in ListInputs(MainBranchNames, "master") :
          /\ lastSubmit' = [prompt |-> pc, input |-> input, result |-> Accepted]
          /\ answers' = [answers EXCEPT !.mainBranchName =
                                            IF input = "" THEN "master" ELSE input]
    /\ Resolve("mainBranchName")
    /\ UNCHANGED <<variant, outcome, exitCode, currentLanguage, repoURLType, out, cmds,
                   steps, disk, branches, listing, thrown>>

promptMainBranchName ==
    /\ pc = "mainBranchName"
    /\ \E input \in ListInputs(MainBranchNames, "main") :
          /\ lastSubmit' = [prompt |-> pc, input |-> input, result |-> Accepted]
          /\ answers' = [answers EXCEPT !.mainBranchName =
                                            IF input = "" THEN "main" ELSE input]
    /\ Resolve("mainBranchName")
    /\ UNCHANGED <<variant, outcome, exitCode, currentLanguage, repoURLType, out, cmds,
                   steps, disk, branches, listing, thrown>>

(***************************************************************************)
(* The materialization pipeline                                            *)
(***************************************************************************)
\* the merged-branch listing holds at most this many lines
MaxMerged == 2

\* branch names that git branch --merged may report, in refname order
MergedNames == <<"c", "main", "master">>

\* the outputs of git branch --format="%(refname:short)" --merged: one line per branch
RECURSIVE JoinLines(_)
JoinLines(names) ==
    IF names = <<>> THEN "" ELSE Head(names) \o "\n" \o JoinLines(Tail(names))

MergedOutputs ==
    {JoinLines([i \in 1..n |-> MergedNames[pick[i]]]) :
        <<n, pick>> \in {<<m, f>> \in UNION {{m} \X [1..m -> 1..Len(MergedNames)] : m \in 0..MaxMerged} :
                           \A i, j \in 1..m : i < j => f[i] < f[j]}}

Log(text) == [stream |-> "log", text |-> text]
Ran(cmd, ok) == [cmd |-> cmd, ok |-> ok]
Err(text) == [stream |-> "error", text |-> text]

\* the message of the Error execSync throws when the command exits non-zero
CommandFailed(cmd) == "Command failed: " \o cmd

\* a value thrown or rejected with: an Error with its message, or any other value with
\* the text its conversion to a string gives
ErrorOf(message) == [isError |-> TRUE, text |-> message]
RawValue(text) == [isError |-> FALSE, text |-> text]

\* the line the catch of createProject prints for error
innerCatchLine(error) ==
    IF error.isError THEN get("errorOccurred") \o error.text
    ELSE get("unknownErrorOccurred") \o error.text

\* faulty variant: the catch removes the project directory
Throw_RollsBack(step, logs, ran, message) ==
    /\ out' = out \o logs \o <<Err(innerCatchLine(ErrorOf(message)))>>
    /\ cmds' = cmds \o [i \in 1..Len(ran) |-> Ran(ran[i], FALSE)]
               \o <<Ran("rm -rf " \o answers.projectName, TRUE)>>
    /\ disk' = [exists |-> FALSE, manifest |-> NoFile]
    /\ steps' = Append(steps, step)
    /\ outcome' = "Failed"
    /\ exitCode' = 0
    /\ pc' = "done"
    /\ thrown' = Append(thrown, ErrorOf(message))
    /\ UNCHANGED <<variant, currentLanguage, repoURLType, answers, asked, lastSubmit,
                   branches, listing>>

\* faulty variant: the catch prints the error and throws it again to the caller
Throw_Rethrows(step, logs, ran, message) ==
    /\ out' = out \o logs \o <<Err(innerCatchLine(ErrorOf(message))),
                                 Err(get("errorOccurred") \o message)>>
    /\ cmds' = cmds \o [i \in 1..Len(ran) |-> Ran(ran[i], FALSE)]
    /\ steps' = Append(steps, step)
    /\ outcome' = "Failed"
    /\ exitCode' = 0
    /\ pc' = "done"
    /\ thrown' = Append(thrown, ErrorOf(message))
    /\ UNCHANGED <<variant, currentLanguage, repoURLType, answers, asked, lastSubmit,
                   disk, branches, listing>>

\* an Error thrown inside the try block: the catch prints it and the run ends
Throw(step, logs, ran, message) ==
    /\ out' = out \o logs \o <<Err(innerCatchLine(ErrorOf(message)))>>
    /\ cmds' = cmds \o [i \in 1..Len(ran) |-> Ran(ran[i], FALSE)]
    /\ steps' = Append(steps, step)
    /\ outcome' = "Failed"
    /\ exitCode' = 0
    /\ pc' = "done"
    /\ thrown' = Append(thrown, ErrorOf(message))
    /\ UNCHANGED <<variant, currentLanguage, repoURLType, answers, asked, lastSubmit,
                   disk, branches, listing>>

\* a step that finished: the next statement runs
Proceed(step, logs, ran, next) ==
    /\ out' = out \o logs
    /\ cmds' = cmds \o [i \in 1..Len(ran) |-> Ran(ran[i], TRUE)]
    /\ steps' = Append(steps, step)
    /\ pc' = next
    /\ UNCHANGED <<variant, outcome, exitCode, currentLanguage, repoURLType, answers,
                   asked, lastSubmit, thrown>>

\* execSync hands the line to the shell, which splits it into words at blanks
\* (the lines of the model hold no quotes and no other shell syntax up to the clone)
Words(line) == SelectSeq(split(line, " "), LAMBDA w : w # "")

\* faulty variant: the branch option is always given
CloneCommand_AlwaysBranch ==
    "git clone -b " \o answers.branchName \o " " \o answers.repoURL \o " " \o answers.projectName

CloneCommand ==
    LET branchOption == IF answers.branchName # "" THEN "-b " \o answers.branchName ELSE ""
    IN "git clone " \o branchOption \o " " \o answers.repoURL \o " " \o answers.projectName

Clone ==
    /\ pc = "clone"
    /\ LET logs == <<Log(get("creatingProject") \o " ./" \o answers.projectName
                         \o " :construction_worker::construction:")>>
       IN \/ /\ Proceed("clone", logs, <<CloneCommand>>, "checkManifest")
             /\ \E template \in Templates : disk' = [exists |-> TRUE, manifest |-> template]
             /\ UNCHANGED <<branches, listing>>
          \/ Throw("clone", logs, <<CloneCommand>>, CommandFailed(CloneCommand))

packagePath == answers.projectName \o "/package.json"

\* faulty variant: the file is read without the existence test, a missing file throws
CheckManifest_Throws ==
    /\ pc = "checkManifest"
    /\ IF disk.manifest # NoFile
       THEN /\ Proceed("checkManifest", <<>>, <<>>, "rewrite")
            /\ UNCHANGED <<disk, branches, listing>>
       ELSE Throw("checkManifest", <<>>, <<>>,
                  "ENOENT: no such file or directory, open '" \o packagePath \o "'")

\* fs.existsSync(packagePath) and the else branch
CheckManifest ==
    /\ pc = "checkManifest"
    /\ IF disk.manifest # NoFile
       THEN /\ Proceed("checkManifest", <<>>, <<>>, "rewrite")
            /\ UNCHANGED <<disk, branches, listing>>
       ELSE /\ out' = Append(out, Err(get("errorPackageJson")))
            /\ steps' = Append(steps, "checkManifest")
            /\ outcome' = "MissingManifest"
            /\ exitCode' = 0
            /\ pc' = "done"
            /\ UNCHANGED <<variant, currentLanguage, repoURLType, answers, asked,
                           lastSubmit, cmds, disk, branches, listing, thrown>>

\* faulty variant: repository.url is always the template URL
RewrittenManifest_TemplateURL(doc) ==
    LET url == answers.repoURL
    IN [doc EXCEPT !.name = answers.packageName,
                   !.version = "1.0.0",
                   !.description = answers.description,
                   !.author = answers.author,
                   !.license = answers.license,
                   !.keywords = answers.keywords,
                   !.repository.url = url,
                   !.bugs.url = ReplaceFirst(url, ".git", "") \o "/issues",
                   !.homepage = ReplaceFirst(url, ".git", "") \o "#readme"]

\* faulty variant: the version of the template is kept
RewrittenManifest_KeepsVersion(doc) ==
    LET url == IF answers.newRepoURL # "" THEN answers.newRepoURL ELSE answers.repoURL
    IN [doc EXCEPT !.name = answers.packageName,
                   !.description = answers.description,
                   !.author = answers.author,
                   !.license = answers.license,
                   !.keywords = answers.keywords,
                   !.repository.url = url,
                   !.bugs.url = ReplaceFirst(url, ".git", "") \o "/issues",
                   !.homepage = ReplaceFirst(url, ".git", "") \o "#readme"]

\* faulty variant: the bugs object is replaced by one that holds the url alone
RewrittenManifest_ReplacesBugs(doc) ==
    LET url == IF answers.newRepoURL # "" THEN answers.newRepoURL ELSE answers.repoURL
    IN [doc EXCEPT !.name = answers.packageName,
                   !.version = "1.0.0",
                   !.description = answers.description,
                   !.author = answers.author,
                   !.license = answers.license,
                   !.keywords = answers.keywords,
                   !.repository.url = url,
                   !.bugs = [present |-> TRUE, url |-> ReplaceFirst(url, ".git", "") \o "/issues"],
                   !.homepage = ReplaceFirst(url, ".git", "") \o "#readme"]

\* the assignments to packageFile
RewrittenManifest(doc) ==
    LET url == IF answers.newRepoURL # "" THEN answers.newRepoURL ELSE answers.repoURL
    IN [doc EXCEPT !.name = answers.packageName,
                   !.version = "1.0.0",
                   !.description = answers.description,
                   !.author = answers.author,
                   !.license = answers.license,
                   !.keywords = answers.keywords,
                   !.repository.url = url,
                   !.bugs.url = ReplaceFirst(url, ".git", "") \o "/issues",
                   !.homepage = ReplaceFirst(url, ".git", "") \o "#readme"]

\* faulty variant: a missing sub-object is skipped and the other fields are written
RewriteManifest_SkipsMissing ==
    /\ pc = "rewrite"
    /\ IF disk.manifest = InvalidFile
       THEN Throw("rewrite", <<>>, <<>>, "Unexpected end of JSON input")
       ELSE IF ~disk.manifest.doc.repository.present \/ ~disk.manifest.doc.bugs.present
       THEN /\ Proceed("rewrite", <<>>, <<>>, "install")
            /\ disk' = [disk EXCEPT !.manifest =
                           JsonFile([disk.manifest.doc EXCEPT !.name = answers.packageName,
                                                              !.version = "1.0.0"])]
            /\ UNCHANGED <<branches, listing>>
       ELSE \/ /\ Proceed("rewrite", <<>>, <<>>, "install")
               /\ disk' = [disk EXCEPT !.manifest = JsonFile(RewrittenManifest(disk.manifest.doc))]
               /\ UNCHANGED <<branches, listing>>
            \/ Throw("rewrite", <<>>, <<>>,
                     "EACCES: permission denied, open '" \o packagePath \o "'")

\* JSON.parse(readFileSync), the assignments, writeFileSync
RewriteManifest ==
    /\ pc = "rewrite"
    /\ IF disk.manifest = InvalidFile
       THEN Throw("rewrite", <<>>, <<>>, "Unexpected end of JSON input")
       ELSE IF ~disk.manifest.doc.repository.present \/ ~disk.manifest.doc.bugs.present
       THEN Throw("rewrite", <<>>, <<>>, "Cannot set properties of undefined (setting 'url')")
       ELSE \/ /\ Proceed("rewrite", <<>>, <<>>, "install")
               /\ disk' = [disk EXCEPT !.manifest = JsonFile(RewrittenManifest(disk.manifest.doc))]
               /\ UNCHANGED <<branches, listing>>
            \/ Throw("rewrite", <<>>, <<>>,
                     "EACCES: permission denied, open '" \o packagePath \o "'")

\* faulty variant: npm is told the language of the run
InstallCommand_Localized ==
    "cd " \o answers.projectName \o " && npm install --locale " \o currentLanguage

InstallCommand == "cd " \o answers.projectName \o " && npm install"

\* faulty variant: the remote is never set
Install_SkipsRemote ==
    /\ pc = "install"
    /\ LET logs == <<Log(get("installingDependencies"))>>
       IN \/ /\ Proceed("install", logs, <<InstallCommand>>, "cleanup")
             /\ UNCHANGED <<disk, branches, listing>>
          \/ Throw("install", logs, <<InstallCommand>>, CommandFailed(InstallCommand))

\* faulty variant: a failed install does not stop the run
Install_IgnoresFailure ==
    /\ pc = "install"
    /\ \E ok \in BOOLEAN :
          /\ out' = Append(out, Log(get("installingDependencies")))
          /\ cmds' = Append(cmds, Ran(InstallCommand, ok))
          /\ steps' = Append(steps, "install")
          /\ pc' = IF answers.newRepoURL # "" THEN "remote" ELSE "cleanup"
    /\ UNCHANGED <<variant, outcome, exitCode, currentLanguage, repoURLType, answers,
                   asked, lastSubmit, disk, branches, listing, thrown>>

Install ==
    /\ pc = "install"
    /\ LET logs == <<Log(get("installingDependencies"))>>
       IN \/ /\ Proceed("install", logs, <<InstallCommand>>,
                        IF answers.newRepoURL # "" THEN "remote" ELSE "cleanup")
             /\ UNCHANGED <<disk, branches, listing>>
          \/ Throw("install", logs, <<InstallCommand>>, CommandFailed(InstallCommand))

\* faulty variant: origin is set to the template URL
RemoteCommand_TemplateURL ==
    "cd " \o answers.projectName \o " && git remote set-url origin " \o answers.repoURL

RemoteCommand ==
    "cd " \o answers.projectName \o " && git remote set-url origin " \o answers.newRepoURL

SetRemote ==
    /\ pc = "remote"
    /\ LET logs == <<Log(get("settingRemote") \o " " \o answers.newRepoURL \o " :wrench:")>>
       IN \/ /\ Proceed("remote", logs, <<RemoteCommand>>, "cleanup")
             /\ UNCHANGED <<disk, branches, listing>>
          \/ Throw("remote", logs, <<RemoteCommand>>, CommandFailed(RemoteCommand))

CleanupCommand ==
    IF variant = "orphan"
    THEN "cd " \o answers.projectName \o " && git switch --orphan " \o answers.mainBranchName
         \o " && git branch -D " \o answers.branchName
    ELSE "cd " \o answers.projectName \o " && git checkout " \o answers.mainBranchName

\* git branch -D without a branch name fails ("branch name required"); with the name
\* of the branch just switched to it fails too: the switch refuses a branch that
\* exists, and a branch the switch has just made has no commit to delete
CleanupCanSucceed ==
    \/ variant = "checkout"
    \/ answers.branchName # "" /\ answers.branchName # answers.mainBranchName

\* the project directory after the branch switch: git switch --orphan removes every
\* tracked file, the manifest among them; git checkout keeps the working tree
AfterSwitch ==
    IF variant = "orphan" THEN [disk EXCEPT !.manifest = NoFile] ELSE disk

Cleanup ==
    /\ pc = "cleanup"
    /\ LET logs == <<Log(get("cleaningUpBranches"))>>
       IN \/ /\ CleanupCanSucceed
             /\ Proceed("cleanup", logs, <<CleanupCommand>>, "list")
             /\ disk' = AfterSwitch
             /\ UNCHANGED <<branches, listing>>
          \/ Throw("cleanup", logs, <<CleanupCommand>>, CommandFailed(CleanupCommand))

ListCommand ==
    "cd " \o answers.projectName \o " && git branch --format=\"%(refname:short)\" --merged"

\* .map(branch => branch.trim()).filter(branch => branch && branch !== mainBranchName)
RECURSIVE TrimAndKeep(_)
TrimAndKeep(lines) ==
    IF lines = <<>> THEN <<>>
    ELSE (IF trim(Head(lines)) # "" /\ trim(Head(lines)) # answers.mainBranchName
          THEN <<trim(Head(lines))>> ELSE <<>>)
         \o TrimAndKeep(Tail(lines))

BranchesToDelete(output) == TrimAndKeep(split(output, "\n"))

AfterDeletes == IF variant = "orphan" THEN "commit" ELSE "report"

ListMerged ==
    /\ pc = "list"
    /\ \/ \E output \in MergedOutputs :
             /\ listing' = output
             /\ branches' = BranchesToDelete(output)
             /\ Proceed("list", <<>>, <<ListCommand>>,
                        IF BranchesToDelete(output) = <<>> THEN AfterDeletes ELSE "delete")
             /\ UNCHANGED disk
       \/ Throw("list", <<>>, <<ListCommand>>, CommandFailed(ListCommand))

DeleteCommand(branch) == "cd " \o answers.projectName \o " && git branch -D " \o branch

\* faulty variant: the loop ends after its first iteration
DeleteBranch_OnlyFirst ==
    /\ pc = "delete"
    /\ LET branch == Head(branches)
           logs == <<Log("Deleting branch: " \o branch)>>
       IN \/ /\ branches' = <<>>
             /\ Proceed("delete", logs, <<DeleteCommand(branch)>>, AfterDeletes)
             /\ UNCHANGED <<disk, listing>>
          \/ /\ Throw("delete", logs, <<DeleteCommand(branch)>>,
                      CommandFailed(DeleteCommand(branch)))

\* one iteration of the for loop
DeleteBranch ==
    /\ pc = "delete"
    /\ LET branch == Head(branches)
           logs == <<Log("Deleting branch: " \o branch)>>
       IN \/ /\ branches' = Tail(branches)
             /\ Proceed("delete", logs, <<DeleteCommand(branch)>>,
                        IF Tail(branches) = <<>> THEN AfterDeletes ELSE "delete")
             /\ UNCHANGED <<disk, listing>>
          \/ /\ Throw("delete", logs, <<DeleteCommand(branch)>>,
                      CommandFailed(DeleteCommand(branch)))

\* the grave accent, which the module text cannot hold, is written <grave>
Grave == "<grave>"

CommitCommand ==
    "cd " \o answers.projectName
    \o " && git add . && git commit -m \"chore(package): update project details and create main branch\n\nUpdated the "
    \o Grave \o "package.json" \o Grave
    \o " to reflect the new project details, including the project name, description, repository URL, and keywords for the "
    \o Grave \o answers.projectName \o Grave \o ".\""

Commit ==
    /\ pc = "commit"
    /\ LET logs == <<Log("Committing changes to " \o answers.mainBranchName \o " branch")>>
       IN \/ /\ Proceed("commit", logs, <<CommitCommand>>, "report")
             /\ UNCHANGED <<disk, branches, listing>>
          \/ Throw("commit", logs, <<CommitCommand>>, CommandFailed(CommitCommand))

\* console.log(Messages.get(projectReady)); the process then ends
Report ==
    /\ pc = "report"
    /\ out' = Append(out, Log(get("projectReady")))
    /\ steps' = Append(steps, "report")
    /\ outcome' = "Success"
    /\ exitCode' = 0
    /\ pc' = "done"
    /\ UNCHANGED <<variant, currentLanguage, repoURLType, answers, asked, lastSubmit,
                   cmds, disk, branches, listing, thrown>>

\* what inquirer.prompt may reject with: its own Error (no terminal to render on, the
\* prompt closed by the user) or a reason that is no Error
Rejections ==
    {ErrorOf("Prompts can not be meaningfully rendered in non-TTY environments"),
     ErrorOf("User force closed the prompt"),
     RawValue("closed")}

\* the line the catch of the last statement of the script prints for err
topLevelCatchLine(err) ==
    IF err.isError THEN get("errorOccurred") \o err.text
    ELSE get("unknownErrorOccurred")

\* inquirer.prompt rejects at a question: promptUser and createProject reject with the
\* same value (the await is outside the try block), the catch of the last statement
\* prints one line, and the process ends with nothing left to run
topLevelCatch ==
    /\ pc \in {PromptOrder[i] : i \in 1..Len(PromptOrder)}
    /\ \E err \in Rejections :
          /\ out' = Append(out, Err(topLevelCatchLine(err)))
          /\ thrown' = Append(thrown, err)
    /\ outcome' = "PromptFailed"
    /\ exitCode' = 0
    /\ pc' = "done"
    /\ lastSubmit' = NoSubmit
    /\ UNCHANGED <<variant, currentLanguage, repoURLType, answers, asked, cmds, steps,
                   disk, branches, listing>>

promptUser ==
    \/ promptLanguage
    \/ promptRepoURLType
    \/ promptProjectName
    \/ promptRepoURL
    \/ promptBranchName
    \/ promptNewRepoURL
    \/ promptPackageName
    \/ promptDescription
    \/ promptAuthor
    \/ promptLicense
    \/ promptKeywords
    \/ promptMainBranchName

createProject ==
    \/ Clone
    \/ CheckManifest
    \/ RewriteManifest
    \/ Install
    \/ SetRemote
    \/ Cleanup
    \/ ListMerged
    \/ DeleteBranch
    \/ Commit
    \/ Report

Next == promptUser \/ createProject \/ topLevelCatch

Spec == Init /\ [][Next]_vars

\* the user does not stay at a question forever (some line is accepted, or canceled,
\* or the prompt fails) and every step of the pipeline returns (execSync and the fs
\* calls are synchronous: the step ends when the child process exits)
Fairness ==
    /\ WF_vars((promptUser \/ topLevelCatch) /\ pc' # pc)
    /\ WF_vars(createProject)

LiveSpec == Spec /\ Fairness

(***************************************************************************)
(* Properties                                                              *)
(***************************************************************************)
PipelineSteps ==
    {"clone", "checkManifest", "rewrite", "install", "remote", "cleanup", "list",
     "delete", "commit", "report"}

Printed(line) == \E i \in 1..Len(out) : out[i] = line

RanCommand(cmd) == \E i \in 1..Len(cmds) : cmds[i].cmd = cmd

\* C1: a run that ends in Canceled has executed no external operation (no command, no
\* pipeline step, no directory, no manifest write); a run becomes Canceled only by a
\* step taken at one of the three validated prompts; and once the clone step has begun
\* the run is never Canceled.
C1_CancelOnlyBeforePipeline ==
    /\ [](outcome = "Canceled" =>
             /\ cmds = <<>>
             /\ steps = <<>>
             /\ disk = [exists |-> FALSE, manifest |-> NoFile])
    /\ [][outcome' = "Canceled" => pc \in ValidatedPrompts]_vars
    /\ [][(pc \in PipelineSteps \/ steps # <<>>) => outcome' # "Canceled"]_vars

C1_Witness ==
    /\ outcome = "Canceled"
    /\ lastSubmit.prompt = "newRepoURL"
    /\ answers.repoURL # ""

\* C2: a step taken at the project-name prompt with the line "c" or "C" ends the run at
\* once: the blank line and the operation-canceled message are printed, the exit code is
\* 0, no further prompt resolves, no command runs and no directory exists; and no step
\* is ever taken from a canceled run.
C2_CancelAtProjectName ==
    /\ [][(pc = "projectName" /\ lastSubmit'.input \in {"c", "C"}) =>
             /\ outcome' = "Canceled"
             /\ exitCode' = 0
             /\ out' = out \o <<Log(""), Log(messages[currentLanguage].operationCanceled)>>
             /\ asked' = asked
             /\ answers' = NoAnswers
             /\ cmds' = <<>>
             /\ steps' = <<>>
             /\ ~disk'.exists]_vars
    /\ [][outcome # "Canceled"]_vars

C2_Witness ==
    /\ outcome = "Canceled"
    /\ lastSubmit = [prompt |-> "projectName", input |-> "C", result |-> Accepted]
    /\ asked = <<"language", "repoURLType">>
    /\ exitCode = 0

\* the pipeline step that may directly follow step a
MayFollow(a, b) ==
    CASE a = "clone" -> b = "checkManifest"
      [] a = "checkManifest" -> b = "rewrite"
      [] a = "rewrite" -> b = "install"
      [] a = "install" -> b = (IF answers.newRepoURL # "" THEN "remote" ELSE "cleanup")
      [] a = "remote" -> b = "cleanup"
      [] a = "cleanup" -> b = "list"
      [] a \in {"list", "delete"} ->
            b \in {"delete", IF variant = "orphan" THEN "commit" ELSE "report"}
      [] a = "commit" -> b = "report"
      [] OTHER -> FALSE

\* C3: a pipeline step has started only if all twelve prompts have resolved, in order;
\* the steps started form a chain clone, manifest check, manifest rewrite, install,
\* remote set (exactly when a new repository URL was given), branch cleanup (switch,
\* listing, deletions), commit (in the revision that commits), success report, each
\* step directly following the one before it; one step is in progress at a time.
C3_PipelineOrder ==
    steps # <<>> =>
        /\ asked = PromptOrder
        /\ steps[1] = "clone"
        /\ \A i \in 1..(Len(steps) - 1) : MayFollow(steps[i], steps[i + 1])
        /\ pc \in PipelineSteps \cup {"done"}
        /\ pc # "done" => MayFollow(steps[Len(steps)], pc)

C3_Witness ==
    /\ outcome = "Success"
    /\ answers.newRepoURL # ""
    /\ \E i \in 1..Len(steps) : steps[i] = "delete"

\* C4: the step in which an external operation fails is the last step of the run: it
\* adds at most the failed command itself to the commands run (nothing compensating),
\* leaves the project directory and its manifest as the completed steps left them,
\* prints the error line, and the project-ready message is never printed.
C4_FailureStopsPipeline ==
    /\ [][outcome' = "Failed" =>
             /\ pc \in PipelineSteps
             /\ pc' = "done"
             /\ disk' = disk
             /\ Len(cmds') <= Len(cmds) + 1
             /\ SubSeq(cmds', 1, Len(cmds)) = cmds
             /\ \A i \in (Len(cmds) + 1)..Len(cmds') : ~cmds'[i].ok
             /\ steps' = Append(steps, pc)
             /\ out'[Len(out')].stream = "error"]_vars
    /\ [](outcome = "Failed" => ~Printed(Log(messages[currentLanguage].projectReady)))
    /\ [][outcome # "Failed"]_vars

C4_Witness ==
    /\ outcome = "Failed"
    /\ disk.exists
    /\ disk.manifest # NoFile
    /\ steps[Len(steps)] = "remote"

\* C5: when the clone has succeeded and the project holds no package.json, the manifest
\* check prints the missing-manifest error and ends the run with no error raised: the
\* clone is the only command run, nothing was written, and neither the generic error
\* line nor the project-ready message is printed.
C5_MissingManifest ==
    /\ [][(pc = "checkManifest" /\ disk.manifest = NoFile) =>
             /\ outcome' = "MissingManifest"
             /\ out' = Append(out, Err(messages[currentLanguage].errorPackageJson))
             /\ cmds' = cmds
             /\ disk' = disk]_vars
    /\ [](outcome = "MissingManifest" =>
             /\ cmds = <<Ran(CloneCommand, TRUE)>>
             /\ steps = <<"clone", "checkManifest">>
             /\ disk = [exists |-> TRUE, manifest |-> NoFile]
             /\ Len(out) = 2
             /\ ~Printed(Log(messages[currentLanguage].projectReady)))
    /\ [][outcome # "MissingManifest"]_vars

C5_Witness ==
    /\ outcome = "MissingManifest"
    /\ disk.exists

\* C6: the project-ready message is printed only in a run that has ended in success, in
\* which every command run exited 0 and, in this order, the clone, the manifest write,
\* the install, the remote set (when a new repository URL was given), the branch switch,
\* the branch listing and (in the revision that commits) the commit were all executed.
C6_SuccessImpliesAllSteps ==
    Printed(Log(messages[currentLanguage].projectReady)) =>
        /\ outcome = "Success"
        /\ out[Len(out)] = Log(messages[currentLanguage].projectReady)
        /\ steps[Len(steps)] = "report"
        /\ \A i \in 1..Len(cmds) : cmds[i].ok
        /\ cmds[1].cmd = CloneCommand
        /\ cmds[2].cmd = InstallCommand
        /\ disk.exists
        /\ variant = "checkout" =>
              /\ disk.manifest.file = "json"
              /\ disk.manifest.doc.name = answers.packageName
              /\ disk.manifest.doc.version = "1.0.0"
        /\ answers.newRepoURL # "" => cmds[3].cmd = RemoteCommand
        /\ \E i \in 3..(Len(cmds) - 1) :
              /\ cmds[i].cmd = CleanupCommand
              /\ cmds[i + 1].cmd = ListCommand
        /\ variant = "orphan" => cmds[Len(cmds)].cmd = CommitCommand
        /\ \A s \in {"clone", "checkManifest", "rewrite", "install", "cleanup", "list"} :
              \E i \in 1..Len(steps) : steps[i] = s

C6_Witness ==
    /\ outcome = "Success"
    /\ Printed(Log(messages[currentLanguage].projectReady))
    /\ answers.newRepoURL # ""
    /\ currentLanguage = "pt"

\* C7: a line that a validated prompt rejects leaves the run at that prompt with the
\* localized message as the result, changes no collected answer, no resolved prompt,
\* neither the kind nor the language, prints and runs nothing, and leaves the run
\* running.
C7_RejectionKeepsPrompt ==
    [][(pc \in ValidatedPrompts /\ ~lastSubmit'.result.valid) =>
          /\ pc' = pc
          /\ lastSubmit'.prompt = pc
          /\ lastSubmit'.result.message =
                (IF pc = "projectName" THEN messages[currentLanguage].projectName
                 ELSE messages[currentLanguage].invalidGitRepoURL)
          /\ answers' = answers
          /\ asked' = asked
          /\ repoURLType' = repoURLType
          /\ currentLanguage' = currentLanguage
          /\ outcome' = "Running"
          /\ exitCode' = -1
          /\ out' = out
          /\ cmds' = cmds
          /\ steps' = steps
          /\ disk' = disk]_vars

C7_Witness ==
    /\ pc = "newRepoURL"
    /\ lastSubmit.prompt = "newRepoURL"
    /\ ~lastSubmit.result.valid
    /\ answers.projectName = "demo"
    /\ answers.branchName = "main"
    /\ outcome = "Running"

\* what the URL rule of a kind accepts
KindAccepts(kind, url) ==
    IF kind = "https" THEN ParseURL(url).ok /\ ParseURL(url).origin = "https://github.com"
    ELSE kind = "ssh" /\ MatchesSSH(url)

\* C8: when a run reaches the pipeline (the clone is about to start, all answers are
\* collected) the kind chosen at the second prompt is https or ssh, the template URL
\* satisfies the rule of that kind, and the new repository URL is blank or satisfies
\* the rule of that same kind.
C8_OneKindGovernsBothURLs ==
    pc = "clone" =>
        /\ repoURLType \in RepoURLTypes
        /\ KindAccepts(repoURLType, answers.repoURL)
        /\ answers.newRepoURL = "" \/ KindAccepts(repoURLType, answers.newRepoURL)

C8_Witness ==
    /\ pc = "clone"
    /\ repoURLType = "ssh"
    /\ answers.repoURL = "git@github.com:my.github/w-1.git"
    /\ answers.newRepoURL = "git@github.com:me/app.git"

\* a line the URL validator of the given kind has just judged
JudgedURL(kind) ==
    /\ lastSubmit.prompt \in {"repoURL", "newRepoURL"}
    /\ repoURLType = kind
    /\ lastSubmit.input \notin {"c", "C"}
    /\ ~(lastSubmit.prompt = "newRepoURL" /\ lastSubmit.input = "")

\* C9: with kind https the validator accepts a line exactly when it parses as a URL
\* whose origin is https://github.com, and every rejection is the invalid-URL message
\* of the active language; https://github.com/acme/widget is accepted,
\* http://github.com/acme/widget, https://gitlab.com/acme/widget and text that is no URL
\* are rejected.
C9_HttpsValidator ==
    JudgedURL("https") =>
        LET u == lastSubmit.input
            r == lastSubmit.result
        IN /\ r.valid <=> (ParseURL(u).ok /\ ParseURL(u).origin = "https://github.com")
           /\ ~r.valid => r.message = messages[currentLanguage].invalidGitRepoURL
           /\ u = "https://github.com/acme/widget" => r.valid
           /\ u \in {"http://github.com/acme/widget", "https://gitlab.com/acme/widget",
                     "not a url"} => ~r.valid

C9_Witness ==
    /\ JudgedURL("https")
    /\ lastSubmit.input = "http://github.com/acme/widget"
    /\ ~lastSubmit.result.valid
    /\ pc = "repoURL"

\* url is git@github.com:<owner>/<repo>.git, owner and repo one or more characters,
\* each a letter, a digit, an underscore, a dot or a dash
SSHShape(url) ==
    LET prefix == "git@github.com:"
        NameChar(c) == IsAlpha(c) \/ IsDigit(c) \/ c \in {"_", ".", "-"}
    IN \E k \in 1..Len(url), m \in 1..Len(url) :
          /\ Len(url) = Len(prefix) + k + 1 + m + 4
          /\ LET owner == SubSeq(url, Len(prefix) + 1, Len(prefix) + k)
                 repo == SubSeq(url, Len(prefix) + k + 2, Len(prefix) + k + 1 + m)
             IN /\ url = prefix \o owner \o "/" \o repo \o ".git"
                /\ \A i \in 1..k : NameChar(Char(owner, i))
                /\ \A i \in 1..m : NameChar(Char(repo, i))

\* C10: with kind ssh the validator accepts a line exactly when it is
\* git@github.com:<owner>/<repo>.git with owner and repo of one or more word, dot or dash
\* characters; git@github.com:acme/widget.git is accepted, git@github.com:acme/widget
\* and https://github.com/acme/widget are rejected.
C10_SshValidator ==
    JudgedURL("ssh") =>
        LET u == lastSubmit.input
            r == lastSubmit.result
        IN /\ r.valid <=> SSHShape(u)
           /\ u = "git@github.com:acme/widget.git" => r.valid
           /\ u \in {"git@github.com:acme/widget", "https://github.com/acme/widget"}
                 => ~r.valid

C10_Witness ==
    /\ JudgedURL("ssh")
    /\ lastSubmit.input = "git@github.com:acme/widget"
    /\ ~lastSubmit.result.valid
    /\ pc = "repoURL"

\* the characters of the class [A-Za-z0-9_-]
NameChars == "ABCDEFGHIJKLMNOPQRSTUVWXYZabcdefghijklmnopqrstuvwxyz0123456789_-"

\* C11: a line judged by the project-name validator is accepted exactly when it is one
\* or more characters long and each character is an ASCII letter, a digit, an
\* underscore or a dash; my-app_2 is accepted, the empty line and my app are rejected.
C11_ProjectNameValidator ==
    (lastSubmit.prompt = "projectName" /\ lastSubmit.input \notin {"c", "C"}) =>
        LET name == lastSubmit.input
            r == lastSubmit.result
        IN /\ r.valid <=>
                 /\ name # ""
                 /\ \A i \in 1..Len(name) :
                       \E k \in 1..Len(NameChars) : Char(name, i) = Char(NameChars, k)
           /\ name = "my-app_2" => r.valid
           /\ name \in {"", "my app"} => ~r.valid

C11_Witness ==
    /\ lastSubmit = [prompt |-> "projectName", input |-> "my app",
                     result |-> Rejected(messages[currentLanguage].projectName)]
    /\ pc = "projectName"
    /\ answers.projectName = ""

\* C12: a line submitted at the new-repository-URL prompt, when blank, resolves the
\* prompt with a blank answer whatever the kind; with the line c or C it cancels the
\* run; with any other line it resolves the prompt with that line as the answer when
\* the line satisfies the URL rule of the chosen kind, and otherwise rejects the line
\* and stays at the prompt.
C12_NewRepoURLPrompt ==
    [][(pc = "newRepoURL" /\ lastSubmit'.prompt = "newRepoURL") =>
          LET u == lastSubmit'.input
          IN /\ u = "" =>
                   /\ lastSubmit'.result.valid
                   /\ answers'.newRepoURL = ""
                   /\ pc' = "packageName"
                   /\ outcome' = "Running"
             /\ u \in {"c", "C"} =>
                   /\ outcome' = "Canceled"
                   /\ exitCode' = 0
                   /\ pc' = "done"
                   /\ answers' = answers
             /\ u \notin {"", "c", "C"} =>
                   /\ outcome' = "Running"
                   /\ lastSubmit'.result.valid <=> KindAccepts(repoURLType, u)
                   /\ IF KindAccepts(repoURLType, u)
                      THEN answers'.newRepoURL = u /\ pc' = "packageName"
                      ELSE answers' = answers /\ pc' = "newRepoURL"]_vars

C12_Witness ==
    /\ lastSubmit = [prompt |-> "newRepoURL", input |-> "", result |-> Accepted]
    /\ repoURLType = "ssh"
    /\ answers.newRepoURL = ""
    /\ pc = "packageName"

\* the manifest has been written: the install step is next or has started
ManifestWritten ==
    /\ disk.manifest.file = "json"
    /\ pc = "install" \/ \E i \in 1..Len(steps) : steps[i] = "install"

\* C13: once the manifest has been written, its repository.url is the new repository
\* URL when that answer is not blank, and the template repository URL when it is.
C13_RepositoryURL ==
    ManifestWritten =>
        /\ answers.newRepoURL # "" => disk.manifest.doc.repository.url = answers.newRepoURL
        /\ answers.newRepoURL = "" => disk.manifest.doc.repository.url = answers.repoURL
        /\ disk.manifest.doc.repository.type = "git"

C13_Witness ==
    /\ ManifestWritten
    /\ answers.repoURL = "https://github.com/acme/widget"
    /\ answers.newRepoURL = "https://github.com/me/app.git"
    /\ disk.manifest.doc.repository.url = "https://github.com/me/app.git"

\* url without its trailing .git suffix, when it has one
StripTrailingGit(url) ==
    IF EndsWith(url, ".git") THEN SubSeq(url, 1, Len(url) - 4) ELSE url

\* C14: once the manifest has been written, its bugs.url is its repository.url with a
\* trailing .git suffix removed and nothing else changed, followed by /issues, and its
\* homepage is that same stripped URL followed by #readme.
C14_BugsAndHomepage ==
    ManifestWritten =>
        LET url == disk.manifest.doc.repository.url
        IN /\ disk.manifest.doc.bugs.url = StripTrailingGit(url) \o "/issues"
           /\ disk.manifest.doc.homepage = StripTrailingGit(url) \o "#readme"

\* the text of url after its last slash
LastSegment(url) == SubSeq(url, LastIndexOf(url, "/") + 1, Len(url))

C16_ManifestFields ==
    ManifestWritten =>
        /\ disk.manifest.doc.name = answers.packageName
        /\ disk.manifest.doc.description = answers.description
        /\ disk.manifest.doc.author = answers.author
        /\ disk.manifest.doc.license = answers.license
        /\ disk.manifest.doc.keywords = answers.keywords
        /\ disk.manifest.doc.version = "1.0.0"
        /\ \A t \in Templates : t.file = "json" => t.doc.version = "0.3.1"

C16_Witness ==
    /\ ManifestWritten
    /\ disk.manifest.doc.version = "1.0.0"
    /\ disk.manifest.doc.license = "ISC"
    /\ disk.manifest.doc.description = ""
    /\ disk.manifest.doc.keywords = <<"a", "b", "c">>
    /\ disk.manifest.doc.scripts = "tsc"

\* the k-th comma-separated token of s: the text between comma k-1 and comma k
CommaToken(s, k) ==
    LET commas == {i \in 1..Len(s) : Char(s, i) = ","}
        at(n) == IF n = 0 THEN 0
                 ELSE IF n > Cardinality(commas) THEN Len(s) + 1
                 ELSE CHOOSE i \in commas : Cardinality({j \in commas : j <= i}) = n
    IN SubSeq(s, at(k - 1) + 1, at(k) - 1)

\* t from its first to its last character that is not a blank
WithoutOuterBlanks(t) ==
    LET inked == {i \in 1..Len(t) : Char(t, i) # " "}
    IN IF inked = {} THEN ""
       ELSE SubSeq(t, CHOOSE i \in inked : \A j \in inked : i <= j,
                      CHOOSE i \in inked : \A j \in inked : i >= j)

\* the trimmed comma-separated tokens of s that are not empty, in their order
KeywordsOf(s) ==
    LET n == Cardinality({i \in 1..Len(s) : Char(s, i) = ","}) + 1
    IN SelectSeq([k \in 1..n |-> WithoutOuterBlanks(CommaToken(s, k))], LAMBDA t : t # "")

\* C17: the keywords stored for a line typed at the keywords prompt are the
\* comma-separated tokens of the line, each without its outer blanks, the empty ones
\* left out, in the order of the line; no stored keyword is empty, starts or ends with
\* a blank or holds a comma; the empty line stores no keyword and the line
\* "a, b ,,c " stores a, b, c.
C17_KeywordTransform ==
    lastSubmit.prompt = "keywords" =>
        LET line == lastSubmit.input
            kw == answers.keywords
        IN /\ kw = KeywordsOf(line)
           /\ \A i \in 1..Len(kw) :
                 /\ kw[i] # ""
                 /\ Char(kw[i], 1) # " " /\ Char(kw[i], Len(kw[i])) # " "
                 /\ \A j \in 1..Len(kw[i]) : Char(kw[i], j) # ","
           /\ line = "" => kw = <<>>
           /\ line = " , " => kw = <<>>
           /\ line = "a, b ,,c " => kw = <<"a", "b", "c">>

C17_Witness ==
    /\ lastSubmit.prompt = "keywords"
    /\ lastSubmit.input = "a, b ,,c "
    /\ answers.keywords = <<"a", "b", "c">>
    /\ pc = "mainBranchName"

\* the places in cmds of the commands that are a git remote command in the project
RemoteSets ==
    {i \in 1..Len(cmds) :
        StartsWith(cmds[i].cmd, "cd " \o answers.projectName \o " && git remote ")}

\* the places in cmds of the branch switch that opens the cleanup
BranchSwitches ==
    {i \in 1..Len(cmds) :
        \/ StartsWith(cmds[i].cmd, "cd " \o answers.projectName \o " && git switch ")
        \/ StartsWith(cmds[i].cmd, "cd " \o answers.projectName \o " && git checkout ")}

\* C18: a remote command is run only when the new repository URL answered is not
\* blank; it is then git remote set-url origin followed by exactly that URL, run once,
\* in the project directory, directly after the install that exited 0 and before the
\* branch switch; and when the branch cleanup has started and the new repository URL
\* is not blank, the remote command has run and exited 0.
C18_RemoteSet ==
    /\ answers.newRepoURL = "" => RemoteSets = {}
    /\ \A i \in RemoteSets :
          /\ answers.newRepoURL # ""
          /\ cmds[i].cmd = "cd " \o answers.projectName
                           \o " && git remote set-url origin " \o answers.newRepoURL
          /\ i = 3
          /\ cmds[2] = [cmd |-> "cd " \o answers.projectName \o " && npm install", ok |-> TRUE]
          /\ \A j \in BranchSwitches : i < j
    /\ (pc = "cleanup" \/ \E k \in 1..Len(steps) : steps[k] = "cleanup") =>
          IF answers.newRepoURL # "" THEN RemoteSets = {3} /\ cmds[3].ok
          ELSE RemoteSets = {}

C18_Witness ==
    /\ answers.newRepoURL = "git@github.com:me/app.git"
    /\ Len(cmds) >= 4
    /\ cmds[3] = [cmd |-> "cd demo && git remote set-url origin git@github.com:me/app.git",
                  ok |-> TRUE]
    /\ 4 \in BranchSwitches
    /\ cmds[4].ok

LineOf(s, k) ==
    LET feeds == {i \in 1..Len(s) : Char(s, i) = "\n"}
        at(n) == IF n = 0 THEN 0
                 ELSE IF n > Cardinality(feeds) THEN Len(s) + 1
                 ELSE CHOOSE i \in feeds : Cardinality({j \in feeds : j <= i}) = n
    IN SubSeq(s, at(k - 1) + 1, at(k) - 1)

\* the branches a listing reports, in its order, without the blank entries and
\* without the chosen main branch
ReportedToDelete ==
    LET n == Cardinality({i \in 1..Len(listing) : Char(listing, i) = "\n"}) + 1
    IN SelectSeq([k \in 1..n |-> WithoutOuterBlanks(LineOf(listing, k))],
                 LAMBDA b : b # "" /\ b # answers.mainBranchName)

\* the place in cmds of the merged-branch listing, 0 when it has not run
ListPlace ==
    LET at == {i \in 1..Len(cmds) :
                  StartsWith(cmds[i].cmd, "cd " \o answers.projectName \o " && git branch --format")}
    IN IF at = {} THEN 0 ELSE CHOOSE i \in at : TRUE

\* the branch deletions run after the listing, in order
DeletionsRun ==
    SelectSeq(SubSeq(cmds, ListPlace + 1, Len(cmds)),
              LAMBDA c : StartsWith(c.cmd, "cd " \o answers.projectName \o " && git branch -D "))

\* C20: after a listing that exited 0, the deletions run are, in order and one each,
\* git branch -D of the branches the listing reports other than the chosen main branch,
\* blank lines left out: at any time a beginning of that sequence, in which only the
\* last deletion may have failed, and the whole of it, every deletion having exited 0,
\* once the loop is over; no deletion names the main branch or nothing.
C20_MergedBranchesDeleted ==
    (ListPlace # 0 /\ cmds[ListPlace].ok) =>
        LET prefix == "cd " \o answers.projectName \o " && git branch -D "
            want == ReportedToDelete
            run == DeletionsRun
        IN /\ Len(run) <= Len(want)
           /\ \A k \in 1..Len(run) : run[k].cmd = prefix \o want[k]
           /\ \A k \in 1..(Len(run) - 1) : run[k].ok
           /\ \A k, l \in 1..Len(run) : k # l => run[k].cmd # run[l].cmd
           /\ \A k \in 1..Len(run) :
                 run[k].cmd \notin {prefix, prefix \o answers.mainBranchName}
           /\ (pc \in {"commit", "report"} \/ outcome = "Success"
                \/ \E k \in 1..Len(steps) : steps[k] = "commit") =>
                 /\ Len(run) = Len(want)
                 /\ \A k \in 1..Len(run) : run[k].ok
           /\ pc = "delete" => Len(run) < Len(want) /\ branches[1] = want[Len(run) + 1]

C20_Witness ==
    /\ outcome = "Success"
    /\ answers.mainBranchName = "main"
    /\ listing = "c\nmain\n"
    /\ RanCommand("cd demo && git branch -D c")
    /\ ~RanCommand("cd demo && git branch -D main")

\* C21: the table holds exactly the languages en and pt, the languages the first prompt
\* offers; the active language is always one of them; for each of them the table holds
\* every message key and no other, each with a text of at least one character; so get
\* returns a non-empty text for every key in every reachable state.
C21_MessagesTotal ==
    /\ DOMAIN messages = {"en", "pt"}
    /\ LanguageCodes = DOMAIN messages
    /\ currentLanguage \in DOMAIN messages
    /\ Cardinality(MessageKey) = 22
    /\ \A l \in DOMAIN messages :
          /\ DOMAIN messages[l] = MessageKey
          /\ \A k \in MessageKey : Len(messages[l][k]) >= 1
    /\ \A k \in MessageKey : Len(get(k)) >= 1

C21_Witness ==
    /\ currentLanguage = "pt"
    /\ outcome = "Success"
    /\ out[Len(out)].text = messages.pt.projectReady
    /\ out[1].text # messages.en.creatingProject \o " ./demo :construction_worker::construction:"

\* C22: the active language is en until the language prompt resolves; the step that
\* resolves the language prompt, the first prompt of the run, sets it to the language
\* chosen, en or pt; that prompt resolves at most once in a run; and no step taken
\* anywhere else changes the active language.
C22_LanguageSetOnce ==
    /\ [](asked = <<>> => currentLanguage = "en")
    /\ [][(pc = "language" /\ pc' = "repoURLType") =>
             /\ asked = <<>>
             /\ asked' = <<"language">>
             /\ lastSubmit'.prompt = "language"
             /\ currentLanguage' = lastSubmit'.input
             /\ currentLanguage' \in {"en", "pt"}]_vars
    /\ [][pc # "language" => currentLanguage' = currentLanguage]_vars
    /\ [](Cardinality({i \in 1..Len(asked) : asked[i] = "language"}) <= 1)

C22_Witness ==
    /\ currentLanguage = "pt"
    /\ asked = <<"language">>
    /\ pc = "repoURLType"
    /\ lastSubmit.input = "pt"

\* text is a message of the table in language l, alone or followed by the text of
\* the run (a directory, a URL, the message of an Error)
LookedUpIn(l, text) == \E k \in MessageKey : StartsWith(text, messages[l][k])

\* C23: once the language prompt has resolved, the line printed last is the blank line
\* of the cancel notice or begins with a message of the table in the active language,
\* and the message of a rejected line is a message of the table in the active language.
C23_MessagesInSelectedLanguage ==
    asked # <<>> =>
        /\ out # <<>> =>
              \/ out[Len(out)].text = ""
              \/ LookedUpIn(currentLanguage, out[Len(out)].text)
        /\ ~lastSubmit.result.valid =>
              \E k \in MessageKey : lastSubmit.result.message = messages[currentLanguage][k]

\* C24: no step taken at the language prompt or at the repository-URL-kind prompt
\* cancels the run; a step that resolves the language prompt leads to the kind prompt
\* with en or pt as the active language, a step that resolves the kind prompt leads to
\* the project-name prompt with https or ssh as the kind, and nothing is printed; the
\* only other step there is the prompt itself failing, which ends the run with an
\* error line. A canceled run was canceled at a prompt that validates its line.
C24_NoCancelAtListPrompts ==
    /\ [][(pc = "language" \/ pc = "repoURLType") =>
             (/\ outcome' # "Canceled"
              /\ outcome' \in {"Running", "PromptFailed"}
              /\ (outcome' = "Running" =>
                    (/\ asked' = Append(asked, pc)
                     /\ out' = out
                     /\ (pc = "language" =>
                            (pc' = "repoURLType" /\ currentLanguage' \in {"en", "pt"}))
                     /\ (pc = "repoURLType" =>
                            (pc' = "projectName" /\ repoURLType' \in {"https", "ssh"})))))]_vars
    /\ [](outcome = "Canceled" =>
             (/\ lastSubmit.prompt \in {"projectName", "repoURL", "newRepoURL"}
              /\ Len(asked) >= 2))

C24_Witness ==
    /\ pc = "projectName"
    /\ asked = <<"language", "repoURLType">>
    /\ currentLanguage = "pt"
    /\ repoURLType = "ssh"
    /\ outcome = "Running"
    /\ out = <<>>

\* the twelve questions in the order promptUser awaits them
AwaitedOrder ==
    <<"language", "repoURLType", "projectName", "repoURL", "branchName", "newRepoURL",
      "packageName", "description", "author", "license", "keywords", "mainBranchName">>

C26_ExitStatus ==
    pc = "done" =>
        /\ (outcome \in {"Success", "Canceled"} => exitCode = 0)
        /\ (outcome \in {"Failed", "PromptFailed"} => exitCode # 0)

ErrorLines == {i \in 1..Len(out) : out[i].stream = "error"}

\* C27: a run prints at most one line on the error stream. A run that failed in the
\* pipeline, failed while the questions were asked, or found no manifest printed exactly
\* one, as its last line; a failure of the pipeline happened after all twelve questions
\* and a failure of the questions before any command, so the two catches never report
\* the same run. A running, completed or canceled run printed none, and a step that
\* rejects a line prints nothing and leaves the run running at the same question.
C27_OneErrorLine ==
    /\ [](/\ Cardinality(ErrorLines) <= 1
          /\ (outcome \in {"Failed", "PromptFailed", "MissingManifest"} =>
                 (ErrorLines = {Len(out)} /\ pc = "done"))
          /\ (outcome \in {"Running", "Success", "Canceled"} => ErrorLines = {})
          /\ (outcome = "Failed" => (asked = PromptOrder /\ steps # <<>>))
          /\ (outcome = "PromptFailed" =>
                 (Len(asked) < Len(PromptOrder) /\ steps = <<>> /\ cmds = <<>>)))
    /\ [][~lastSubmit'.result.valid =>
             (out' = out /\ outcome' = "Running" /\ pc' = pc /\ pc \in ValidatedPrompts)]_vars

C27_Witness ==
    /\ outcome = "Failed"
    /\ ErrorLines = {Len(out)}
    /\ Len(cmds) >= 2
    /\ ~cmds[Len(cmds)].ok
    /\ out[Len(out)].text = get("errorOccurred") \o "Command failed: " \o cmds[Len(cmds)].cmd

\* C28: whenever a catch received a value that is not an Error, in the pipeline or
\* while the questions were asked, the line printed for it is the unknown-error message
\* of the active language followed by that value.
C28_RawValueAppended ==
    \A i \in 1..Len(thrown) :
        ~thrown[i].isError =>
            /\ out # <<>>
            /\ out[Len(out)].stream = "error"
            /\ out[Len(out)].text =
                   messages[currentLanguage].unknownErrorOccurred \o thrown[i].text

\* C29: once the pipeline has started the main-branch name is master or main and the
\* answers no longer change; a step that resolves the main-branch question with its
\* default kept gives main, and a step that resolves the license question with an empty
\* line gives the license ISC.
C29_BranchAndLicenseDefaults ==
    /\ []((pc \in PipelineSteps \/ steps # <<>>) =>
             (answers.mainBranchName \in {"master", "main"} /\ asked = PromptOrder))
    /\ [][(pc = "mainBranchName" /\ lastSubmit'.prompt = "mainBranchName") =>
             (/\ answers'.mainBranchName \in {"master", "main"}
              /\ (lastSubmit'.input = "" => answers'.mainBranchName = "main")
              /\ pc' = "clone")]_vars
    /\ [][(pc = "license" /\ lastSubmit'.prompt = "license" /\ lastSubmit'.input = "") =>
             (answers'.license = "ISC" /\ pc' = "keywords")]_vars
    /\ [][(pc \in PipelineSteps \/ pc = "done") => answers' = answers]_vars

C29_Witness ==
    /\ pc = "clone"
    /\ lastSubmit = [prompt |-> "mainBranchName", input |-> "", result |-> Accepted]
    /\ answers.mainBranchName = "main"
    /\ answers.license = "ISC"

TerminalOutcomes == {"Success", "Canceled", "MissingManifest", "Failed", "PromptFailed"}

\* C30: when the user does not stay at a question forever and every step of the
\* pipeline returns, every run eventually ends: success reported, canceled, stopped
\* for a missing manifest, or failed with its error reported, and once ended it stays
\* ended. A step that rejects a line never ends the run: the run is still running, at
\* the same question, with no exit status.
C30_Terminates ==
    /\ <>[](pc = "done" /\ outcome \in TerminalOutcomes /\ exitCode = 0)
    /\ [][~lastSubmit'.result.valid =>
             (outcome' = "Running" /\ pc' = pc /\ exitCode' = -1 /\ asked' = asked)]_vars

C30_Witness ==
    /\ pc = "done"
    /\ outcome = "Canceled"
    /\ exitCode = 0
    /\ lastSubmit.prompt = "newRepoURL"
    /\ asked = SubSeq(PromptOrder, 1, 5)

\* C31: no command the pipeline has issued deletes the chosen main branch: none ends in
\* git branch -D followed by the main-branch name, whatever branch name was supplied.
C31_MainBranchNeverDeleted ==
    \A i \in 1..Len(cmds) :
        ~EndsWith(cmds[i].cmd, " git branch -D " \o answers.mainBranchName)

\* C32: in the revision that switches to an orphan branch, no command issued ends in
\* git branch -D with nothing after it, and a run whose branch-name answer is blank is
\* not stopped by the branch switch.
C32_NoEmptyBranchDelete ==
    variant = "orphan" =>
        /\ \A i \in 1..Len(cmds) : ~EndsWith(cmds[i].cmd, " git branch -D ")
        /\ (answers.branchName = "" /\ outcome = "Failed") => steps[Len(steps)] # "cleanup"

\* C33: when the commit step is about to run, every branch deletion is over, success
\* has not been reported, the commit message names the project, and the manifest as
\* rewritten is in the project directory.
C33_CommitHoldsRewrite ==
    pc = "commit" =>
        /\ branches = <<>>
        /\ ~Printed(Log(messages[currentLanguage].projectReady))
        /\ EndsWith(CommitCommand, Grave \o answers.projectName \o Grave \o ".\"")
        /\ disk.manifest.file = "json"
        /\ disk.manifest.doc.name = answers.packageName
        /\ disk.manifest.doc.version = "1.0.0"

\* the manifest in the project directory parses and lacks repository or bugs
LacksSubObject ==
    /\ disk.manifest.file = "json"
    /\ ~disk.manifest.doc.repository.present \/ ~disk.manifest.doc.bugs.present

\* C34: the rewrite step of a manifest that lacks the repository or the bugs object
\* ends the run as failed with one more line, the error message of the active language
\* followed by the message of the error, leaves the project directory and its manifest
\* as they were and runs no command; in the run so ended only the clone was ever run
\* and the project-ready message was not printed.
C34_MissingSubObject ==
    /\ [][(pc = "rewrite" /\ LacksSubObject) =>
             (/\ outcome' = "Failed"
              /\ pc' = "done"
              /\ disk' = disk
              /\ cmds' = cmds
              /\ steps' = Append(steps, "rewrite")
              /\ Len(out') = Len(out) + 1
              /\ out'[Len(out')].stream = "error"
              /\ StartsWith(out'[Len(out')].text, messages[currentLanguage].errorOccurred)
              /\ Len(out'[Len(out')].text) > Len(messages[currentLanguage].errorOccurred))]_vars
    /\ []((pc = "done" /\ LacksSubObject) =>
             (/\ outcome = "Failed"
              /\ steps = <<"clone", "checkManifest", "rewrite">>
              /\ Len(cmds) = 1
              /\ cmds[1].cmd = CloneCommand
              /\ ~Printed(Log(messages[currentLanguage].projectReady))))

C34_Witness ==
    /\ pc = "done"
    /\ outcome = "Failed"
    /\ disk.manifest.file = "json"
    /\ disk.manifest.doc.repository.present
    /\ ~disk.manifest.doc.bugs.present
    /\ disk.manifest.doc.name = "ts-template"
    /\ steps[Len(steps)] = "rewrite"

\* C35: once the pipeline has started, the project name is one or more characters of
\* the class [A-Za-z0-9_-] (judged as the pipeline starts) and is neither c nor C; the
\* first command run is the clone with that name as its last word, every later command
\* starts with cd into that name
\* (each command is judged when it is the last one run, and commands run are never
\* changed afterwards), the manifest path is that name followed by /package.json, and
\* the name no longer changes.
C35_ProjectNameValidated ==
    /\ []((pc \in PipelineSteps \/ steps # <<>>) =>
             LET name == answers.projectName
             IN /\ name \notin {"", "c", "C"}
                /\ pc = "clone" =>
                      \A i \in 1..Len(name) :
                         \E k \in 1..Len(NameChars) : Char(name, i) = Char(NameChars, k)
                /\ packagePath = name \o "/package.json"
                /\ cmds # <<>> =>
                      LET last == cmds[Len(cmds)].cmd
                      IN IF Len(cmds) = 1
                         THEN /\ StartsWith(last, "git clone ")
                              /\ EndsWith(last, " " \o name)
                         ELSE StartsWith(last, "cd " \o name \o " && "))
    /\ [][SubSeq(cmds', 1, Len(cmds)) = cmds]_vars
    /\ [][(pc \in PipelineSteps \/ pc = "done") =>
             answers'.projectName = answers.projectName]_vars
    /\ [][(lastSubmit'.prompt = "projectName" /\ lastSubmit'.input \in {"c", "C"}) =>
             (outcome' = "Canceled" /\ answers'.projectName = "")]_vars

C35_Witness ==
    /\ answers.projectName = "my-app_2"
    /\ Len(cmds) >= 3
    /\ cmds[2].cmd = "cd my-app_2 && npm install"
    /\ disk.manifest.file = "json"
    /\ outcome = "Success"

FreeTextPrompts == {"branchName", "packageName", "description", "author", "license"}

\* C36: a step that takes the line c at the branch-name, package-name, description,
\* author or license question leaves the run running, stores c as that answer, prints
\* nothing and moves to the next question; at the keywords question the answer stored
\* is the one keyword c. A canceled run was canceled at the project-name, template-URL
\* or new-URL question, and a clone run after the branch answer c is restricted to the
\* branch c.
C36_SentinelOnlyAtValidated ==
    /\ [][(pc \in FreeTextPrompts /\ lastSubmit'.prompt = pc /\ lastSubmit'.input = "c") =>
             (/\ outcome' = "Running"
              /\ exitCode' = -1
              /\ answers'[pc] = "c"
              /\ asked' = Append(asked, pc)
              /\ pc' = NextPrompt(pc)
              /\ out' = out)]_vars
    /\ [][(pc = "keywords" /\ lastSubmit'.prompt = pc /\ lastSubmit'.input = "c") =>
             (/\ outcome' = "Running"
              /\ answers'.keywords = <<"c">>
              /\ pc' = "mainBranchName"
              /\ out' = out)]_vars
    /\ [](outcome = "Canceled" =>
             (lastSubmit.prompt \in ValidatedPrompts /\ lastSubmit.input \in {"c", "C"}))
    /\ []((Len(cmds) = 1 /\ answers.branchName = "c") =>
             cmds[1].cmd = "git clone -b c " \o answers.repoURL \o " " \o answers.projectName)

C36_Witness ==
    /\ outcome = "Success"
    /\ answers.branchName = "c"
    /\ answers.packageName = "c"
    /\ answers.description = "c"
    /\ answers.author = "c"
    /\ answers.license = "c"
    /\ answers.keywords = <<"c">>
    /\ StartsWith(cmds[1].cmd, "git clone -b c ")

RewrittenFields ==
    {"name", "version", "description", "author", "license", "keywords", "repository",
     "bugs", "homepage"}

\* C37: a rewrite step that writes the manifest writes a document with the fields of
\* the document it read, in which every field other than name, version, description,
\* author, license, keywords, repository, bugs and homepage has the value read, and in
\* which repository and bugs have the members read, each with the value read except
\* url; a rewrite step that fails leaves the file as it was.
C37_RewriteFrame ==
    [][pc = "rewrite" =>
          IF disk' # disk
          THEN LET old == disk.manifest.doc
                   new == disk'.manifest.doc
               IN /\ outcome' = "Running"
                  /\ disk'.exists = disk.exists
                  /\ disk'.manifest.file = "json"
                  /\ DOMAIN new = DOMAIN old
                  /\ \A f \in DOMAIN old \ RewrittenFields : new[f] = old[f]
                  /\ DOMAIN new.repository = DOMAIN old.repository
                  /\ DOMAIN new.bugs = DOMAIN old.bugs
                  /\ \A m \in DOMAIN old.repository \ {"url"} :
                        new.repository[m] = old.repository[m]
                  /\ \A m \in DOMAIN old.bugs \ {"url"} : new.bugs[m] = old.bugs[m]
          ELSE outcome' = "Failed"]_vars

C37_Witness ==
    /\ pc = "install"
    /\ disk.manifest.file = "json"
    /\ disk.manifest.doc.name = "c"
    /\ disk.manifest.doc.scripts = "tsc"
    /\ disk.manifest.doc.repository.type = "git"
    /\ disk.manifest.doc.bugs.email = "bugs@acme.io"
    /\ disk.manifest.doc.bugs.url # "https://github.com/acme/widget/issues"

\* the command a pipeline step issues and the document the rewrite writes, from the
\* revision, the answers, the document read and the branch at the head of the loop:
\* no message and no language enters either
StepCommand(step) ==
    LET p == answers.projectName
    IN CASE step = "clone" ->
              "git clone " \o (IF answers.branchName # "" THEN "-b " \o answers.branchName ELSE "")
              \o " " \o answers.repoURL \o " " \o p
         [] step = "install" -> "cd " \o p \o " && npm install"
         [] step = "remote" -> "cd " \o p \o " && git remote set-url origin " \o answers.newRepoURL
         [] step = "cleanup" ->
              IF variant = "orphan"
              THEN "cd " \o p \o " && git switch --orphan " \o answers.mainBranchName
                   \o " && git branch -D " \o answers.branchName
              ELSE "cd " \o p \o " && git checkout " \o answers.mainBranchName
         [] step = "list" -> "cd " \o p \o " && git branch --format=\"%(refname:short)\" --merged"
         [] step = "delete" -> "cd " \o p \o " && git branch -D " \o branches[1]
         [] step = "commit" ->
              "cd " \o p \o " && git add . && git commit -m \"chore(package): update project details and create main branch\n\nUpdated the "
              \o Grave \o "package.json" \o Grave
              \o " to reflect the new project details, including the project name, description, repository URL, and keywords for the "
              \o Grave \o p \o Grave \o ".\""
         [] OTHER -> ""

DocumentFromAnswers(old) ==
    LET url == IF answers.newRepoURL # "" THEN answers.newRepoURL ELSE answers.repoURL
        base == ReplaceFirst(url, ".git", "")
    IN [name |-> answers.packageName, version |-> "1.0.0",
        description |-> answers.description, author |-> answers.author,
        license |-> answers.license, keywords |-> answers.keywords,
        repository |-> [present |-> TRUE, type |-> old.repository.type, url |-> url],
        bugs |-> [present |-> TRUE, url |-> base \o "/issues", email |-> old.bugs.email],
        homepage |-> base \o "#readme", scripts |-> old.scripts]

\* C38: the language enters neither the commands nor the manifest nor the course of the
\* run, so two runs that differ in the language alone run the same commands and write
\* the same manifest. Whether a line is accepted at a validated question follows from
\* the line and the kind alone; no pipeline step changes the language or the answers; a
\* pipeline step issues at most one command, the one its place in the pipeline, the
\* revision and the answers give; the document written is the one the answers and the
\* document read give; and the step that follows is given by the step, whether the
\* command exited 0, the answers and the listing.
C38_LanguageOnlyInMessages ==
    /\ [][(pc \in ValidatedPrompts /\ lastSubmit'.prompt = pc /\ outcome' = "Running") =>
             (lastSubmit'.result.valid <=>
                 IF pc = "projectName"
                 THEN /\ lastSubmit'.input # ""
                      /\ \A i \in 1..Len(lastSubmit'.input) :
                            \E k \in 1..Len(NameChars) :
                               Char(lastSubmit'.input, i) = Char(NameChars, k)
                 ELSE \/ pc = "newRepoURL" /\ lastSubmit'.input = ""
                      \/ KindAccepts(repoURLType, lastSubmit'.input))]_vars
    /\ [][(pc \in PipelineSteps) =>
             (/\ currentLanguage' = currentLanguage
              /\ answers' = answers
              /\ IF pc \in {"checkManifest", "rewrite", "report"}
                 THEN cmds' = cmds
                 ELSE /\ Len(cmds') = Len(cmds) + 1
                      /\ SubSeq(cmds', 1, Len(cmds)) = cmds
                      /\ cmds'[Len(cmds')].cmd = StepCommand(pc)
                      /\ cmds'[Len(cmds')].ok <=> outcome' = "Running"
              /\ (pc = "rewrite" /\ disk' # disk) =>
                    disk'.manifest = JsonFile(DocumentFromAnswers(disk.manifest.doc))
              /\ outcome' = "Running" =>
                    pc' = CASE pc = "clone" -> "checkManifest"
                            [] pc = "checkManifest" -> "rewrite"
                            [] pc = "rewrite" -> "install"
                            [] pc = "install" ->
                                 IF answers.newRepoURL # "" THEN "remote" ELSE "cleanup"
                            [] pc = "remote" -> "cleanup"
                            [] pc = "cleanup" -> "list"
                            [] pc \in {"list", "delete"} ->
                                 IF branches' # <<>> THEN "delete"
                                 ELSE IF variant = "orphan" THEN "commit" ELSE "report"
                            [] pc = "commit" -> "report"
                            [] OTHER -> "done")]_vars

C38_Witness ==
    /\ currentLanguage = "pt"
    /\ outcome = "Success"
    /\ Len(cmds) >= 5
    /\ cmds[2].cmd = "cd demo && npm install"
    /\ StartsWith(out[1].text, messages.pt.creatingProject)
    /\ disk.manifest.file = "json"
    /\ disk.manifest.doc.license = "ISC"

\* C39: the step that resolves the language question makes the language selected the
\* active one; from then on no step changes the active language, in particular no step
\* that prints a message or returns one as a rejection; and the messages read after the
\* language was set are those of the table as written: a rejected URL carries the
\* invalid-URL text, a rejected project name the project-name text, of the language
\* selected.
C39_LanguageStable ==
    /\ [][(pc = "language" /\ asked' # asked) =>
             (currentLanguage' = lastSubmit'.input /\ lastSubmit'.prompt = "language")]_vars
    /\ [][asked # <<>> => currentLanguage' = currentLanguage]_vars
    /\ [][(out' # out \/ ~lastSubmit'.result.valid) => currentLanguage' = currentLanguage]_vars
    /\ [](~lastSubmit.result.valid =>
             lastSubmit.result.message =
                IF lastSubmit.prompt = "projectName"
                THEN (IF currentLanguage = "en"
                      THEN "What is your project name? (c: to cancel)"
                      ELSE "Qual e o nome do seu projeto? (c: para cancelar)")
                ELSE (IF currentLanguage = "en"
                      THEN "Please enter a valid GitHub repository URL."
                      ELSE "Por favor, insira uma URL valida do repositorio GitHub."))

C39_Witness ==
    /\ pc = "newRepoURL"
    /\ currentLanguage = "pt"
    /\ lastSubmit.prompt = "newRepoURL"
    /\ lastSubmit.result.message = "Por favor, insira uma URL valida do repositorio GitHub."
    /\ Len(asked) = 5

\* kinds that are neither https nor ssh
OtherKinds == {"", "ftp", "HTTPS", "SSH", "git"}

\* C40: for a kind that is neither https nor ssh the URL validator rejects every line,
\* with the invalid-URL message of the active language, the lines it accepts under https
\* or ssh included; and whenever a URL question is open or the pipeline has started the
\* kind is https or ssh, it is changed by no step other than the kind question, so the
\* validator is never given another kind.
C40_OtherKindsRejected ==
    /\ [](pc \in {"repoURL", "newRepoURL"} =>
             \A kind \in OtherKinds : \A url \in RepoURLInputs \cup NewRepoURLInputs :
                isValidGitRepoURL(url, kind) = Rejected(messages[currentLanguage].invalidGitRepoURL))
    /\ [](Len(asked) >= 2 => repoURLType \in {"https", "ssh"})
    /\ [][pc # "repoURLType" => repoURLType' = repoURLType]_vars
    /\ [][(pc = "repoURLType" /\ asked' # asked) => repoURLType' = lastSubmit'.input]_vars

C40_Witness ==
    /\ pc = "repoURL"
    /\ repoURLType = "ssh"
    /\ lastSubmit.prompt = "repoURL"
    /\ ~lastSubmit.result.valid
    /\ currentLanguage = "pt"
    /\ isValidGitRepoURL("git@github.com:acme/widget.git", "git") =
          Rejected("Por favor, insira uma URL valida do repositorio GitHub.")

====
